---- MODULE Spec2Model ----
(***************************************************************************)
(* Board-and-chain simulation of the two-player tile-matching game:        *)
(* the grid, the falling piece, gravity, flood-fill match detection and    *)
(* the cascading chain resolver of src/src/game/board.ts.                  *)
(***************************************************************************)
EXTENDS Integers, Sequences, FiniteSets, TLC

(***************************************************************************)
(* Program constants (src/src/game/constants.ts) and the colour tags       *)
(* (enum PuyoColor).                                                       *)
(***************************************************************************)
BOARD_WIDTH == 6
BOARD_HEIGHT == 12
MIN_MATCH == 4

Red == "red"
Blue == "blue"
Green == "green"
Yellow == "yellow"
Empty == "empty"
Garbage == "garbage"

PuyoColor == {Red, Blue, Green, Yellow, Empty, Garbage}
PUYO_COLORS == <<Red, Blue, Green, Yellow>>

Rows == 0 .. (BOARD_HEIGHT - 1)
Cols == 0 .. (BOARD_WIDTH - 1)

\* A Position is the record {row, col}.
Pos(r, c) == [row |-> r, col |-> c]
Positions == {Pos(r, c) : r \in Rows, c \in Cols}

\* null
NoPiece == [null |-> TRUE]

(***************************************************************************)
(* Grid Model                                                              *)
(***************************************************************************)
\* createBoard: grid[row][col] = { color: Empty }
createBoard == [r \in Rows |-> [c \in Cols |-> Empty]]

isValidPosition(row, col) ==
    row >= 0 /\ row < BOARD_HEIGHT /\ col >= 0 /\ col < BOARD_WIDTH

\* canPlacePiece that looks at the first cell of the piece only
canPlaceFirstCell(g, piece) ==
    LET row == piece.y + piece.positions[1].row
        col == piece.x + piece.positions[1].col
    IN  IF ~isValidPosition(row, col) THEN FALSE
        ELSE g[row][col] = Empty

\* every cell of the piece maps to an in-bounds, empty cell
canPlacePiece(g, piece) ==
    \A i \in 1 .. Len(piece.positions) :
        LET row == piece.y + piece.positions[i].row
            col == piece.x + piece.positions[i].col
        IN  IF ~isValidPosition(row, col) THEN FALSE
            ELSE g[row][col] = Empty

(***************************************************************************)
(* Piece Controller: movement                                              *)
(***************************************************************************)
movePieceLeft(g, piece) ==
    LET newPiece == [piece EXCEPT !.x = piece.x - 1]
    IN  IF canPlacePiece(g, newPiece) THEN newPiece ELSE piece

movePieceRight(g, piece) ==
    LET newPiece == [piece EXCEPT !.x = piece.x + 1]
    IN  IF canPlacePiece(g, newPiece) THEN newPiece ELSE piece

movePieceDown(g, piece) ==
    LET newPiece == [piece EXCEPT !.y = piece.y + 1]
    IN  IF canPlacePiece(g, newPiece) THEN newPiece ELSE NoPiece

canMovePieceDown(g, piece) ==
    LET newPiece == [piece EXCEPT !.y = piece.y + 1]
    IN  canPlacePiece(g, newPiece)

(***************************************************************************)
(* Gravity Resolver                                                        *)
(***************************************************************************)
\* gravityColumn that moves a cell down by one row, not by emptyCount rows
RECURSIVE gravityColumnOneRow(_, _, _, _)
gravityColumnOneRow(g, col, row, emptyCount) ==
    IF row < 0 THEN g
    ELSE IF g[row][col] = Empty
         THEN gravityColumnOneRow(g, col, row - 1, emptyCount + 1)
    ELSE IF emptyCount > 0
         THEN gravityColumnOneRow([g EXCEPT ![row + 1][col] = g[row][col],
                                            ![row][col] = Empty],
                                  col, row - 1, emptyCount)
    ELSE gravityColumnOneRow(g, col, row - 1, emptyCount)

\* gravityColumn that leaves the moved cell in its old place too
RECURSIVE gravityColumnCopies(_, _, _, _)
gravityColumnCopies(g, col, row, emptyCount) ==
    IF row < 0 THEN g
    ELSE IF g[row][col] = Empty
         THEN gravityColumnCopies(g, col, row - 1, emptyCount + 1)
    ELSE IF emptyCount > 0
         THEN gravityColumnCopies([g EXCEPT ![row + emptyCount][col] = g[row][col]],
                                  col, row - 1, emptyCount)
    ELSE gravityColumnCopies(g, col, row - 1, emptyCount)

\* The inner loop of applyGravity for one column: row runs from the bottom
\* row up to row 0, emptyCount counts the empty cells met so far.
RECURSIVE gravityColumn(_, _, _, _)
gravityColumn(g, col, row, emptyCount) ==
    IF row < 0 THEN g
    ELSE IF g[row][col] = Empty
         THEN gravityColumn(g, col, row - 1, emptyCount + 1)
    ELSE IF emptyCount > 0
         THEN gravityColumn([g EXCEPT ![row + emptyCount][col] = g[row][col],
                                      ![row][col] = Empty],
                            col, row - 1, emptyCount)
    ELSE gravityColumn(g, col, row - 1, emptyCount)

\* The outer loop of applyGravity: col runs from 0 to width - 1.
RECURSIVE gravityFrom(_, _)
gravityFrom(g, col) ==
    IF col >= BOARD_WIDTH THEN g
    ELSE gravityFrom(gravityColumn(g, col, BOARD_HEIGHT - 1, 0), col + 1)

applyGravity(g) == gravityFrom(g, 0)

(***************************************************************************)
(* Match Detector                                                          *)
(***************************************************************************)
\* The set key `${row},${col}` of a position.
KeyTable == [p \in Positions |-> ToString(p.row) \o "," \o ToString(p.col)]
KeyOf(row, col) == KeyTable[Pos(row, col)]

\* key.split(',').map(Number): the position a key was built from.
ParseKey(key) == CHOOSE p \in Positions : KeyTable[p] = key

SeqRange(s) == {s[i] : i \in 1 .. Len(s)}

\* The element of a one-element set.  {F(v) : v \in {e}} is F of the value
\* of e: e is computed first, as a statement that runs before the next one.
Only(S) == CHOOSE r \in S : TRUE

\* getAdjacentSameColor that also follows the four diagonal neighbours
RECURSIVE getAdjacentDiagonal(_, _, _, _, _)
getAdjacentDiagonal(g, row, col, color, visited) ==
    IF ~isValidPosition(row, col) THEN visited
    ELSE IF g[row][col] # color THEN visited
    ELSE IF KeyOf(row, col) \in SeqRange(visited) THEN visited
    ELSE Only({Only({Only({Only({Only({Only({Only({
             getAdjacentDiagonal(g, row + 1, col + 1, color, v7)
           : v7 \in {getAdjacentDiagonal(g, row + 1, col - 1, color, v6)}})
           : v6 \in {getAdjacentDiagonal(g, row - 1, col + 1, color, v5)}})
           : v5 \in {getAdjacentDiagonal(g, row - 1, col - 1, color, v4)}})
           : v4 \in {getAdjacentDiagonal(g, row, col + 1, color, v3)}})
           : v3 \in {getAdjacentDiagonal(g, row, col - 1, color, v2)}})
           : v2 \in {getAdjacentDiagonal(g, row + 1, col, color, v1)}})
           : v1 \in {getAdjacentDiagonal(g, row - 1, col, color,
                                         Append(visited, KeyOf(row, col)))}})

\* getAdjacentSameColor.  visited is the insertion-ordered Set of keys; the
\* Position[] the call returns is the list of the positions it adds to
\* visited, in the order it adds them, so the value returned here is the
\* visited Set after the call.  The four recursive calls run one after the
\* other: up (v1), down (v2), left (v3), right.
RECURSIVE getAdjacentSameColor(_, _, _, _, _)
getAdjacentSameColor(g, row, col, color, visited) ==
    IF ~isValidPosition(row, col) THEN visited
    ELSE IF g[row][col] # color THEN visited
    ELSE IF KeyOf(row, col) \in SeqRange(visited) THEN visited
    ELSE Only({Only({Only({
             getAdjacentSameColor(g, row, col + 1, color, v3)
           : v3 \in {getAdjacentSameColor(g, row, col - 1, color, v2)}})
           : v2 \in {getAdjacentSameColor(g, row + 1, col, color, v1)}})
           : v1 \in {getAdjacentSameColor(g, row - 1, col, color,
                                          Append(visited, KeyOf(row, col)))}})

\* matched.add(key) for every key of a group, in order
RECURSIVE addAll(_, _, _)
addAll(matched, group, i) ==
    IF i > Len(group) THEN matched
    ELSE addAll(IF group[i] \in SeqRange(matched) THEN matched
                ELSE Append(matched, group[i]),
                group, i + 1)

\* matchCols that asks for more than MIN_MATCH cells
RECURSIVE matchColsAbove(_, _, _, _)
matchColsAbove(g, row, col, matched) ==
    IF col >= BOARD_WIDTH THEN matched
    ELSE LET color == g[row][col]
         IN  IF color = Empty \/ color = Garbage
             THEN matchColsAbove(g, row, col + 1, matched)
             ELSE IF KeyOf(row, col) \in SeqRange(matched)
             THEN matchColsAbove(g, row, col + 1, matched)
             ELSE LET group == getAdjacentSameColor(g, row, col, color, <<>>)
                  IN  IF Len(group) > MIN_MATCH
                      THEN matchColsAbove(g, row, col + 1, addAll(matched, group, 1))
                      ELSE matchColsAbove(g, row, col + 1, matched)

\* The inner loop of detectMatches: col runs over the cells of one row.
RECURSIVE matchCols(_, _, _, _)
matchCols(g, row, col, matched) ==
    IF col >= BOARD_WIDTH THEN matched
    ELSE LET color == g[row][col]
         IN  IF color = Empty \/ color = Garbage
             THEN matchCols(g, row, col + 1, matched)
             ELSE IF KeyOf(row, col) \in SeqRange(matched)
             THEN matchCols(g, row, col + 1, matched)
             ELSE LET group == getAdjacentSameColor(g, row, col, color, <<>>)
                  IN  IF Len(group) >= MIN_MATCH
                      THEN matchCols(g, row, col + 1, addAll(matched, group, 1))
                      ELSE matchCols(g, row, col + 1, matched)

\* The outer loop of detectMatches: row runs from 0 to height - 1.
RECURSIVE matchRows(_, _, _)
matchRows(g, row, matched) ==
    IF row >= BOARD_HEIGHT THEN matched
    ELSE Only({matchRows(g, row + 1, m) : m \in {matchCols(g, row, 0, matched)}})

\* detectMatches: the Position[] built from the matched Set
detectMatches(g) ==
    LET matched == matchRows(g, 0, <<>>)
    IN  [i \in 1 .. Len(matched) |-> ParseKey(matched[i])]

(***************************************************************************)
(* Chain Resolver                                                          *)
(***************************************************************************)
\* clearCells that indexes the grid as grid[col][row]
RECURSIVE clearCellsSwapped(_, _, _)
clearCellsSwapped(g, positions, i) ==
    IF i > Len(positions) THEN g
    ELSE clearCellsSwapped(
             IF isValidPosition(positions[i].col, positions[i].row)
             THEN [g EXCEPT ![positions[i].col][positions[i].row] = Empty]
             ELSE g,
             positions, i + 1)

\* forEach(({ row, col }) => newBoard.grid[row][col] = { color: Empty })
RECURSIVE clearCells(_, _, _)
clearCells(g, positions, i) ==
    IF i > Len(positions) THEN g
    ELSE clearCells([g EXCEPT ![positions[i].row][positions[i].col] = Empty],
                    positions, i + 1)

\* clearMatches that settles the board without clearing the positions
clearMatchesKeeps(g, positions) == applyGravity(g)

clearMatches(g, positions) == applyGravity(clearCells(g, positions, 1))

\* detectChains as a function: the loop run to its end.
RECURSIVE chainLoop(_, _)
chainLoop(g, count) ==
    LET m == detectMatches(g)
    IN  IF Len(m) = 0 THEN [board |-> g, chainCount |-> count]
        ELSE chainLoop(clearMatches(g, m), count + 1)

detectChains(initial) == chainLoop(initial, 0)

(***************************************************************************)
(* State                                                                   *)
(***************************************************************************)
VARIABLES
    pc,            \* position of the operation in progress
    initialBoard,  \* the grid the operation was called with
    board,         \* the grid the operation works on (detectChains: let board)
    matches,       \* detectChains: const matches of the current pass
    chainCount,    \* detectChains: let chainCount
    piece,         \* the falling piece
    ret,           \* the value the last piece operation returned
    possibleMoves, \* getPossibleMoves: const moves
    store,         \* the state of useGameStore
    snapshot       \* GameScene.update: const store = useGameStore.getState()

\* no store: the operation under study does not use useGameStore
NoStore == [null |-> TRUE]

vars == <<pc, initialBoard, board, matches, chainCount, piece, ret,
          possibleMoves, store, snapshot>>

(***************************************************************************)
(* Input grids.  Every input is a full 12 x 6 grid whose non-empty cells   *)
(* lie at the bottom left of the board.                                    *)
(***************************************************************************)
ShortRows == 3
TallRows == 5
WideCols == 4
MaxGarbage == 1

\* Two settled columns of two colours, column 0 up to ShortRows high and
\* column 1 up to TallRows high: the inputs of cascades.
Stacks(rows) == UNION {[1 .. k -> {Red, Blue}] : k \in 0 .. rows}

StackGrid(a, b) ==
    [r \in Rows |-> [c \in Cols |->
        LET h == BOARD_HEIGHT - r
        IN  IF c = 0 /\ h <= Len(a) THEN a[h]
            ELSE IF c = 1 /\ h <= Len(b) THEN b[h]
            ELSE Empty]]

TallGrids == {StackGrid(a, b) : a \in Stacks(ShortRows), b \in Stacks(TallRows)}

\* The two bottom rows of columns 0 .. WideCols - 1, any arrangement of one
\* colour, empty cells (floating cells included) and up to MaxGarbage
\* garbage cells: the inputs of group shapes and of garbage.
WideWindow == ((BOARD_HEIGHT - 2) .. (BOARD_HEIGHT - 1)) \X (0 .. (WideCols - 1))

GridOf(f) ==
    [r \in Rows |-> [c \in Cols |->
        IF <<r, c>> \in DOMAIN f THEN f[<<r, c>>] ELSE Empty]]

WideGrids ==
    {GridOf(f) : f \in {w \in [WideWindow -> {Empty, Red, Garbage}] :
        Cardinality({x \in WideWindow : w[x] = Garbage}) <= MaxGarbage}}

ChainGrids == TallGrids \cup WideGrids

(***************************************************************************)
(* detectChains, one step of its loop at a time                            *)
(***************************************************************************)
\* no run of the loop needs more passes than this: the guard of ChainClear
MaxPasses == (BOARD_HEIGHT * BOARD_WIDTH) \div MIN_MATCH

InitChain ==
    /\ initialBoard \in ChainGrids
    /\ board = initialBoard          \* JSON.parse(JSON.stringify(initialBoard))
    /\ chainCount = 0
    /\ matches = <<>>
    /\ pc = "detect"
    /\ piece = NoPiece
    /\ ret = NoPiece
    /\ possibleMoves = <<>>
    /\ store = NoStore
    /\ snapshot = NoStore

\* const matches = detectMatches(board);
ChainDetect ==
    /\ pc = "detect"
    /\ matches' = detectMatches(board)
    /\ pc' = "test"
    /\ UNCHANGED <<initialBoard, board, chainCount, piece, ret,
                 possibleMoves, store, snapshot>>

\* ChainBreak that settles the board it returns
ChainBreakSettles ==
    /\ pc = "test"
    /\ Len(matches) = 0
    /\ pc' = "done"
    /\ board' = applyGravity(board)
    /\ UNCHANGED <<initialBoard, matches, chainCount, piece, ret,
                 possibleMoves, store, snapshot>>

\* if (matches.length === 0) break;  return { board, chainCount };
ChainBreak ==
    /\ pc = "test"
    /\ Len(matches) = 0
    /\ pc' = "done"
    /\ UNCHANGED <<initialBoard, board, matches, chainCount, piece, ret,
                 possibleMoves, store, snapshot>>

\* ChainClear that records that a chain happened, not how many passes
ChainClearFlag ==
    /\ pc = "test"
    /\ Len(matches) # 0
    /\ chainCount <= MaxPasses
    /\ chainCount' = 1
    /\ board' = clearMatches(board, matches)
    /\ pc' = "detect"
    /\ UNCHANGED <<initialBoard, matches, piece, ret,
                 possibleMoves, store, snapshot>>

\* chainCount++;  board = clearMatches(board, matches);
ChainClear ==
    /\ pc = "test"
    /\ Len(matches) # 0
    /\ chainCount <= MaxPasses
    /\ chainCount' = chainCount + 1
    /\ board' = clearMatches(board, matches)
    /\ pc' = "detect"
    /\ UNCHANGED <<initialBoard, matches, piece, ret,
                 possibleMoves, store, snapshot>>

NextChain == ChainDetect \/ ChainBreak \/ ChainClear

SpecChain == InitChain /\ [][NextChain]_vars

(***************************************************************************)
(* applyGravity, applied to an input grid and again to its result          *)
(***************************************************************************)
GravRows == 3

\* Columns 0 and 1, the top row and the GravRows bottom rows: any
\* arrangement of a colour, garbage and empty cells.
GravWindow ==
    ({0} \cup ((BOARD_HEIGHT - GravRows) .. (BOARD_HEIGHT - 1))) \X (0 .. 1)

GravityGrids == {GridOf(f) : f \in [GravWindow -> {Empty, Red, Garbage}]}

InitGravity ==
    /\ initialBoard \in GravityGrids
    /\ board = initialBoard
    /\ pc = "gravity"
    /\ chainCount = 0
    /\ matches = <<>>
    /\ piece = NoPiece
    /\ ret = NoPiece
    /\ possibleMoves = <<>>
    /\ store = NoStore
    /\ snapshot = NoStore

\* board = applyGravity(board)
GravityApply ==
    /\ pc = "gravity"
    /\ board' = applyGravity(board)
    /\ pc' = "settled"
    /\ UNCHANGED <<initialBoard, matches, chainCount, piece, ret,
                 possibleMoves, store, snapshot>>

\* board = applyGravity(board), on the result of GravityApply
GravityAgain ==
    /\ pc = "settled"
    /\ board' = applyGravity(board)
    /\ pc' = "resettled"
    /\ UNCHANGED <<initialBoard, matches, chainCount, piece, ret,
                 possibleMoves, store, snapshot>>

NextGravity == GravityApply \/ GravityAgain

SpecGravity == InitGravity /\ [][NextGravity]_vars

(***************************************************************************)
(* movePieceLeft, movePieceRight, movePieceDown applied to a piece         *)
(***************************************************************************)
MoveRows == 3

\* the layouts a piece has: as spawned by createRandomPiece, and the two
\* layouts rotatePiece gives it
SpawnLayout == [positions |-> <<Pos(0, 2), Pos(1, 2)>>, rotation |-> 0]
HorizontalLayout == [positions |-> <<Pos(0, 0), Pos(0, 1)>>, rotation |-> 1]
VerticalLayout == [positions |-> <<Pos(0, 0), Pos(1, 0)>>, rotation |-> 0]

PieceOf(layout, colors, x, y) ==
    [positions |-> layout.positions, colors |-> colors,
     rotation |-> layout.rotation, x |-> x, y |-> y]

\* the grid cells a piece covers
PieceCells(p) ==
    {Pos(p.y + p.positions[i].row, p.x + p.positions[i].col) :
        i \in 1 .. Len(p.positions)}

\* obstacles: the two bottom rows of the three rightmost columns
MoveWindow ==
    ((BOARD_HEIGHT - 2) .. (BOARD_HEIGHT - 1)) \X ((BOARD_WIDTH - 3) .. (BOARD_WIDTH - 1))

MoveGrids == {GridOf(f) : f \in [MoveWindow -> {Empty, Red}]}

\* pieces anchored in the spawn row or in one of the MoveRows bottom rows,
\* all their cells on the board
MovePieces ==
    {p \in {PieceOf(l, cs, x, y) :
                l \in {SpawnLayout, HorizontalLayout, VerticalLayout},
                cs \in {<<Red, Blue>>, <<Blue, Blue>>},
                x \in (0 - 2) .. (BOARD_WIDTH - 1),
                y \in {0} \cup ((BOARD_HEIGHT - MoveRows) .. (BOARD_HEIGHT - 1))} :
        PieceCells(p) \subseteq Positions}

InitMove ==
    /\ initialBoard \in MoveGrids
    /\ board = initialBoard
    /\ piece \in MovePieces
    /\ ret = NoPiece
    /\ pc = "piece"
    /\ chainCount = 0
    /\ matches = <<>>
    /\ possibleMoves = <<>>
    /\ store = NoStore
    /\ snapshot = NoStore

MoveLeft ==
    /\ pc = "piece"
    /\ ret' = movePieceLeft(board, piece)
    /\ pc' = "left"
    /\ UNCHANGED <<initialBoard, board, matches, chainCount, piece,
                 possibleMoves, store, snapshot>>

MoveRight ==
    /\ pc = "piece"
    /\ ret' = movePieceRight(board, piece)
    /\ pc' = "right"
    /\ UNCHANGED <<initialBoard, board, matches, chainCount, piece,
                 possibleMoves, store, snapshot>>

MoveDown ==
    /\ pc = "piece"
    /\ ret' = movePieceDown(board, piece)
    /\ pc' = "down"
    /\ UNCHANGED <<initialBoard, board, matches, chainCount, piece,
                 possibleMoves, store, snapshot>>

NextMove == MoveLeft \/ MoveRight \/ MoveDown

SpecMove == InitMove /\ [][NextMove]_vars

(***************************************************************************)
(* Vocabulary of the properties: groups, columns, cascade depth            *)
(***************************************************************************)
ColourAt(g, p) == g[p.row][p.col]

NonEmpty(g) == {p \in Positions : ColourAt(g, p) # Empty}
Coloured(g) == {p \in Positions : ColourAt(g, p) \notin {Empty, Garbage}}
GarbageCells(g) == {p \in Positions : ColourAt(g, p) = Garbage}

\* up/down/left/right neighbours, no diagonals
Adjacent(p, q) ==
    \/ p.row = q.row /\ (p.col = q.col + 1 \/ q.col = p.col + 1)
    \/ p.col = q.col /\ (p.row = q.row + 1 \/ q.row = p.row + 1)

RECURSIVE Grow(_, _)
Grow(same, S) ==
    LET N == S \cup {q \in same : \E s \in S : Adjacent(s, q)}
    IN  IF N = S THEN S ELSE Grow(same, N)

\* the maximal connected same-colour group of the coloured cell p
Group(g, p) ==
    Grow({q \in Coloured(g) : ColourAt(g, q) = ColourAt(g, p)}, {p})

\* the cells of the groups that reach the clear threshold
Qualifying(g) ==
    LET coloured == Coloured(g)
    IN  {p \in coloured :
            Cardinality(Grow({q \in coloured : ColourAt(g, q) = ColourAt(g, p)},
                             {p})) >= MIN_MATCH}

\* the non-empty cells of column c outside the set gone, top to bottom
RECURSIVE ColumnFrom(_, _, _, _)
ColumnFrom(g, c, r, gone) ==
    IF r >= BOARD_HEIGHT THEN <<>>
    ELSE IF g[r][c] # Empty /\ Pos(r, c) \notin gone
         THEN <<g[r][c]>> \o ColumnFrom(g, c, r + 1, gone)
         ELSE ColumnFrom(g, c, r + 1, gone)

Column(g, c) == ColumnFrom(g, c, 0, {})

\* no non-empty cell has an empty cell below it
Settled(g) ==
    \A r \in 0 .. (BOARD_HEIGHT - 2) : \A c \in Cols :
        g[r][c] # Empty => g[r + 1][c] # Empty

\* the grid whose column c holds the cells cols[c] packed against the
\* bottom row
Packed(cols) ==
    [r \in Rows |-> [c \in Cols |->
        LET k == r - (BOARD_HEIGHT - Len(cols[c]))
        IN  IF k >= 0 THEN cols[c][k + 1] ELSE Empty]]

\* cascade depth: the number of clear-then-settle passes until no group
\* reaches the threshold
RECURSIVE Depth(_)
Depth(g) ==
    LET q == Qualifying(g)
    IN  IF q = {} THEN 0
        ELSE 1 + Depth(Packed([c \in Cols |-> ColumnFrom(g, c, 0, q)]))

(***************************************************************************)
(* Chain Resolver properties (SpecChain)                                   *)
(***************************************************************************)
MatchedCells == SeqRange(matches)

\* the garbage cells of g that touch a cell of the set cleared
AdjacentGarbage(g, cleared) ==
    {p \in GarbageCells(g) : \E m \in cleared : Adjacent(p, m)}

\* a pass of the loop is about to clear the cells of matches
ClearingPass == pc = "test" /\ Len(matches) # 0

\* C1: for every input grid the loop of detectChains ends: every pass uses
\* up at least MIN_MATCH of the non-empty cells of the input, so the passes
\* are at most MaxPasses and the guard of ChainClear never stops one, and
\* detectMatches finds nothing on the board the loop returns.
ChainTerminates ==
    /\ ClearingPass => chainCount < MaxPasses
    /\ chainCount * MIN_MATCH + Cardinality(NonEmpty(board))
           <= Cardinality(NonEmpty(initialBoard))
    /\ pc = "done" => Len(detectMatches(board)) = 0

ChainTerminatesWitness == pc = "done" /\ chainCount >= 1

\* C2: the chainCount detectChains returns is the cascade depth of its
\* input, the number of clear-then-settle passes until no group reaches the
\* threshold; a second group that forms only when the first clear lets
\* cells fall into contact makes it 2.
ChainCountIsDepth == pc = "done" => chainCount = Depth(initialBoard)

\* scenario D: the blue group of the bottom row is cleared, and the two red
\* pairs above it, which did not touch, fall into a 2 x 2 square
ScenarioD == StackGrid(<<Blue, Red, Red>>, <<Blue, Blue, Blue, Red, Red>>)

ChainCountWitness ==
    /\ pc = "done"
    /\ initialBoard = ScenarioD
    /\ Qualifying(initialBoard) = {p \in Positions : ColourAt(ScenarioD, p) = Blue}
    /\ chainCount = 2

\* C3: a connected same-colour group of exactly MIN_MATCH - 1 cells gives no
\* position to detectMatches, one of exactly MIN_MATCH cells gives them all.
ThresholdBoundary ==
    pc = "test" =>
        \A p \in Coloured(board) :
            LET G == Group(board, p)
            IN  /\ Cardinality(G) = MIN_MATCH - 1 => G \cap MatchedCells = {}
                /\ Cardinality(G) = MIN_MATCH => G \subseteq MatchedCells

ThresholdWitness ==
    /\ pc = "test"
    /\ \E p \in Coloured(board) : Cardinality(Group(board, p)) = MIN_MATCH - 1
    /\ \E p \in Coloured(board) :
          /\ Cardinality(Group(board, p)) = MIN_MATCH
          /\ Group(board, p) \subseteq MatchedCells

\* C4: detectMatches returns, once each, exactly the cells of the maximal
\* 4-directionally connected same-colour groups of size >= MIN_MATCH; cells
\* that touch only diagonally are not connected, and no empty or garbage
\* cell is returned.
MatchesAreGroups ==
    pc = "test" =>
        /\ MatchedCells = Qualifying(board)
        /\ Len(matches) = Cardinality(MatchedCells)
        /\ \A p \in MatchedCells : ColourAt(board, p) \notin {Empty, Garbage}

\* a group is returned while a cell of its colour that touches it only
\* diagonally, and a garbage cell that touches it, are not
MatchesWitness ==
    /\ pc = "test"
    /\ Len(matches) # 0
    /\ AdjacentGarbage(board, MatchedCells) # {}
    /\ \E p \in Coloured(board) \ MatchedCells : \E m \in MatchedCells :
          /\ ColourAt(board, p) = ColourAt(board, m)
          /\ (p.row - m.row) \in {-1, 1}
          /\ (p.col - m.col) \in {-1, 1}

\* C5: a pass that clears removes only cells of qualifying groups (or
\* garbage that touches them); every other non-empty cell keeps its colour,
\* its column and its vertical order among the cells of the column, and
\* the number of non-empty cells strictly decreases.
ConservationUnderClear ==
    [][ClearingPass =>
        LET removable == MatchedCells \cup AdjacentGarbage(board, MatchedCells)
        IN  /\ MatchedCells \subseteq Qualifying(board)
            /\ \A c \in Cols :
                  \E D \in SUBSET {p \in removable : p.col = c} :
                      Column(board', c) = ColumnFrom(board, c, 0, D)
            /\ Cardinality(NonEmpty(board')) < Cardinality(NonEmpty(board))
       ]_vars

ConservationWitness ==
    /\ pc = "detect"
    /\ chainCount >= 1
    /\ Coloured(board) # {}
    /\ GarbageCells(board) # {}

\* C6: in a clearing pass every garbage cell that touches a cleared group
\* is cleared with it, and every other garbage cell remains.
GarbageClearsByAdjacency ==
    [][ClearingPass =>
        \A c \in Cols :
            Column(board', c) =
                ColumnFrom(board, c, 0,
                    MatchedCells \cup AdjacentGarbage(board, MatchedCells))
       ]_vars

\* C9: on a grid without a same-colour group of MIN_MATCH cells detectChains
\* returns the input grid cell for cell and chainCount 0.
NoGroupNoOp ==
    pc = "done" /\ Qualifying(initialBoard) = {} =>
        board = initialBoard /\ chainCount = 0

\* scenario C: a group of three, and a cell that gravity would move
NoGroupWitness ==
    /\ pc = "done"
    /\ Qualifying(initialBoard) = {}
    /\ \E p \in Coloured(board) : Cardinality(Group(board, p)) = MIN_MATCH - 1
    /\ ~Settled(board)

GravityIdempotent == [][pc = "settled" => board' = board]_vars

GravityIdempotentWitness == pc = "resettled" /\ board # initialBoard

(***************************************************************************)
(* Piece Controller properties (SpecMove)                                  *)
(***************************************************************************)
\* the cells of p moved by dy rows and dx columns are on the board and empty
FreeAt(g, p, dy, dx) ==
    \A q \in PieceCells(p) :
        /\ q.row + dy \in Rows
        /\ q.col + dx \in Cols
        /\ g[q.row + dy][q.col + dx] = Empty

Moved == pc \in {"left", "right", "down"}
MoveDx == IF pc = "left" THEN 0 - 1 ELSE IF pc = "right" THEN 1 ELSE 0
MoveDy == IF pc = "down" THEN 1 ELSE 0

\* ret is the argument piece, moved by dy rows and dx columns and otherwise
\* the same
SameButMoved(dy, dx) ==
    /\ ret # NoPiece
    /\ ret.x = piece.x + dx
    /\ ret.y = piece.y + dy
    /\ ret.colors = piece.colors
    /\ ret.positions = piece.positions
    /\ ret.rotation = piece.rotation

\* C10 as stated: each of the three movements returns the piece shifted by
\* one column or row when the shifted pose can be placed, and otherwise a
\* piece at the unchanged position; colours, layout and rotation index are
\* those of the argument.
MoveReturnsPiece ==
    Moved =>
        IF FreeAt(board, piece, MoveDy, MoveDx)
        THEN SameButMoved(MoveDy, MoveDx)
        ELSE SameButMoved(0, 0)

\* C10 as amended: movePieceLeft and movePieceRight do so; movePieceDown
\* returns the piece shifted by one row when the shifted pose can be placed
\* and otherwise null, no piece at all; a piece that is returned has the
\* colours, layout and rotation index of the argument.
MoveReturnsPieceOrNull ==
    Moved =>
        IF FreeAt(board, piece, MoveDy, MoveDx)
        THEN SameButMoved(MoveDy, MoveDx)
        ELSE IF pc = "down" THEN ret = NoPiece
        ELSE SameButMoved(0, 0)

\* a movement was rejected because a cell of the shifted pose is taken:
\* movePieceDown returned null, the other two the piece itself
MoveWitness ==
    /\ Moved
    /\ ~FreeAt(board, piece, MoveDy, MoveDx)
    /\ FreeAt(board, piece, 0, 0)
    /\ \E q \in PieceCells(piece) :
          /\ Pos(q.row + MoveDy, q.col + MoveDx) \in Positions
          /\ board[q.row + MoveDy][q.col + MoveDx] # Empty
    /\ pc = "down" => ret = NoPiece
    /\ pc # "down" => ret = piece


(***************************************************************************)
(* rotatePiece, applied to a piece and again to its result                 *)
(***************************************************************************)
\* if (piece.rotation === 0) rotatedPositions = ... else rotatedPositions = ...
rotatedPositions(p) ==
    IF p.rotation = 0 THEN <<Pos(0, 0), Pos(0, 1)>>
    ELSE <<Pos(0, 0), Pos(1, 0)>>

\* const newPiece = { ...piece, rotation }; newPiece.positions = rotatedPositions
rotatedPiece(p) ==
    [p EXCEPT !.rotation = (p.rotation + 1) % 2,
              !.positions = rotatedPositions(p)]

\* wallKick that tries the left shift before the right shift
RECURSIVE wallKickLeftFirst(_, _, _)
wallKickLeftFirst(g, newPiece, shift) ==
    IF shift > 2 THEN NoPiece
    ELSE LET rightShifted == [newPiece EXCEPT !.x = newPiece.x + shift]
             leftShifted == [newPiece EXCEPT !.x = newPiece.x - shift]
         IN  IF canPlacePiece(g, leftShifted) THEN leftShifted
             ELSE IF canPlacePiece(g, rightShifted) THEN rightShifted
             ELSE wallKickLeftFirst(g, newPiece, shift + 1)

\* for (let shift = 1; shift <= 2; shift++) { right, then left }  return null
RECURSIVE wallKick(_, _, _)
wallKick(g, newPiece, shift) ==
    IF shift > 2 THEN NoPiece
    ELSE LET rightShifted == [newPiece EXCEPT !.x = newPiece.x + shift]
             leftShifted == [newPiece EXCEPT !.x = newPiece.x - shift]
         IN  IF canPlacePiece(g, rightShifted) THEN rightShifted
             ELSE IF canPlacePiece(g, leftShifted) THEN leftShifted
             ELSE wallKick(g, newPiece, shift + 1)

rotatePiece(p, g) ==
    IF canPlacePiece(g, rotatedPiece(p)) THEN rotatedPiece(p)
    ELSE wallKick(g, rotatedPiece(p), 1)

KickCols == 2

\* obstacles: row BOARD_HEIGHT - 2 in every column, and the bottom row in
\* KickCols columns in the middle of the board
RotateWindow ==
    ({BOARD_HEIGHT - 2} \X Cols)
        \cup ({BOARD_HEIGHT - 1} \X (2 .. (1 + KickCols)))

RotateGrids == {GridOf(f) : f \in [RotateWindow -> {Empty, Red}]}

\* pieces of every layout anchored in the spawn row or in one of the two
\* bottom rows
RotatePieces ==
    {PieceOf(l, <<Red, Blue>>, x, y) :
        l \in {SpawnLayout, HorizontalLayout, VerticalLayout},
        x \in (0 - 2) .. (BOARD_WIDTH - 1),
        y \in {0, BOARD_HEIGHT - 2, BOARD_HEIGHT - 1}}

\* the falling piece is always at a pose canPlacePiece accepts
InitRotate ==
    /\ initialBoard \in RotateGrids
    /\ board = initialBoard
    /\ piece \in {p \in RotatePieces : canPlacePiece(initialBoard, p)}
    /\ ret = NoPiece
    /\ pc = "piece"
    /\ chainCount = 0
    /\ matches = <<>>
    /\ possibleMoves = <<>>
    /\ store = NoStore
    /\ snapshot = NoStore

Rotate ==
    /\ pc = "piece"
    /\ ret' = rotatePiece(piece, board)
    /\ pc' = "rotated"
    /\ UNCHANGED <<initialBoard, board, matches, chainCount, piece,
                   possibleMoves, store, snapshot>>

\* rotatePiece on the piece the first rotation returned
RotateAgain ==
    /\ pc = "rotated"
    /\ ret # NoPiece
    /\ ret' = rotatePiece(ret, board)
    /\ pc' = "rotated twice"
    /\ UNCHANGED <<initialBoard, board, matches, chainCount, piece,
                   possibleMoves, store, snapshot>>

NextRotate == Rotate \/ RotateAgain

SpecRotate == InitRotate /\ [][NextRotate]_vars

(***************************************************************************)
(* Piece Controller properties: rotation (SpecRotate)                      *)
(***************************************************************************)
\* the two cells of p are one above the other / side by side
IsVertical(p) ==
    /\ p.positions[1].col = p.positions[2].col
    /\ p.positions[2].row = p.positions[1].row + 1

IsHorizontal(p) ==
    /\ p.positions[1].row = p.positions[2].row
    /\ p.positions[2].col = p.positions[1].col + 1

\* the order in which the anchor column offsets are tried
KickOrder == <<0, 1, 0 - 1, 2, 0 - 2>>

\* p in its other layout, the anchor moved by k columns
Pose(p, k) ==
    PieceOf(IF IsVertical(p) THEN HorizontalLayout ELSE VerticalLayout,
            p.colors, p.x + k, p.y)

\* C11: rotatePiece returns the piece in its other layout at the first of
\* the anchor offsets 0, +1, -1, +2, -2 whose pose canPlacePiece accepts, and
\* null if and only if it accepts none of the five.
RotateFirstFit ==
    pc = "rotated" =>
        /\ ret = NoPiece <=>
              \A i \in 1 .. Len(KickOrder) :
                  ~canPlacePiece(board, Pose(piece, KickOrder[i]))
        /\ ret # NoPiece =>
              /\ IsVertical(ret) <=> IsHorizontal(piece)
              /\ IsHorizontal(ret) <=> IsVertical(piece)
              /\ \E i \in 1 .. Len(KickOrder) :
                    /\ ret = Pose(piece, KickOrder[i])
                    /\ canPlacePiece(board, ret)
                    /\ \A j \in 1 .. (i - 1) :
                          ~canPlacePiece(board, Pose(piece, KickOrder[j]))

\* the last offset is chosen: the four before it are all blocked
RotateFirstFitWitness ==
    /\ pc = "rotated"
    /\ ret # NoPiece
    /\ ret.x = piece.x - 2

\* C12: a piece in the layout createRandomPiece gives it, rotated twice with
\* no wall-kick in either rotation, has its original cell offsets, rotation
\* index, anchor and colours again.
RotationReversible ==
    (/\ pc = "rotated twice"
     /\ piece.positions = SpawnLayout.positions
     /\ rotatePiece(piece, board).x = piece.x
     /\ ret # NoPiece
     /\ ret.x = piece.x)
        => /\ ret = piece
           /\ PieceCells(ret) = PieceCells(piece)


(***************************************************************************)
(* useGameStore: the state of the store and its actions                    *)
(***************************************************************************)
ATTACK_METER_MAX == 100

\* createRandomPiece, for the two colours Math.random selected
createRandomPiece(colors) == PieceOf(SpawnLayout, colors, 2, 0)

\* createInitialGameState, createInitialPlayerState
createInitialPlayerState(current, next) ==
    [gameState |-> [board |-> createBoard,
                    currentPiece |-> createRandomPiece(current),
                    nextPiece |-> createRandomPiece(next),
                    score |-> 0,
                    chainCount |-> 0,
                    isGameOver |-> FALSE,
                    isPaused |-> FALSE],
     attackMeter |-> 0]

\* const player = playerNum === 1 ? state.player1 : state.player2
playerOf(state, playerNum) ==
    IF playerNum = 1 THEN state.player1 ELSE state.player2

\* withPlayer that writes the updated player to the other slot
withPlayerSwapped(state, playerNum, updatedPlayer) ==
    IF playerNum = 1 THEN [state EXCEPT !.player2 = updatedPlayer]
    ELSE [state EXCEPT !.player1 = updatedPlayer]

\* playerNum === 1 ? { ...state, player1: updatedPlayer }
\*                 : { ...state, player2: updatedPlayer }
withPlayer(state, playerNum, updatedPlayer) ==
    IF playerNum = 1 THEN [state EXCEPT !.player1 = updatedPlayer]
    ELSE [state EXCEPT !.player2 = updatedPlayer]

withPiece(player, newPiece) ==
    [player EXCEPT !.gameState.currentPiece = newPiece]

updatePlayerGameState(state, playerNum, gameState) ==
    withPlayer(state, playerNum,
               [playerOf(state, playerNum) EXCEPT !.gameState = gameState])

movePieceLeftAction(state, playerNum) ==
    LET player == playerOf(state, playerNum)
    IN  IF player.gameState.currentPiece = NoPiece THEN state
        ELSE withPlayer(state, playerNum,
                 withPiece(player, movePieceLeft(player.gameState.board,
                                                 player.gameState.currentPiece)))

movePieceRightAction(state, playerNum) ==
    LET player == playerOf(state, playerNum)
    IN  IF player.gameState.currentPiece = NoPiece THEN state
        ELSE withPlayer(state, playerNum,
                 withPiece(player, movePieceRight(player.gameState.board,
                                                  player.gameState.currentPiece)))

\* dropPieceAction without the test of the piece movePieceDown returned
dropPieceActionUnchecked(state, playerNum) ==
    LET player == playerOf(state, playerNum)
    IN  IF player.gameState.currentPiece = NoPiece THEN state
        ELSE withPlayer(state, playerNum,
                 withPiece(player, movePieceDown(player.gameState.board,
                                                 player.gameState.currentPiece)))

dropPieceAction(state, playerNum) ==
    LET player == playerOf(state, playerNum)
    IN  IF player.gameState.currentPiece = NoPiece THEN state
        ELSE LET newPiece == movePieceDown(player.gameState.board,
                                           player.gameState.currentPiece)
             IN  IF newPiece = NoPiece THEN state
                 ELSE withPlayer(state, playerNum, withPiece(player, newPiece))

rotatePieceAction(state, playerNum) ==
    LET player == playerOf(state, playerNum)
    IN  IF player.gameState.currentPiece = NoPiece THEN state
        ELSE LET rotated == rotatePiece(player.gameState.currentPiece,
                                        player.gameState.board)
             IN  IF rotated = NoPiece THEN state
                 ELSE withPlayer(state, playerNum, withPiece(player, rotated))

\* a placePiece that gives every cell the first colour of the piece
RECURSIVE placeCellsOneColour(_, _, _)
placeCellsOneColour(g, p, index) ==
    IF index > Len(p.positions) THEN g
    ELSE LET row == p.y + p.positions[index].row
             col == p.x + p.positions[index].col
         IN  placeCellsOneColour(IF isValidPosition(row, col)
                                 THEN [g EXCEPT ![row][col] = p.colors[1]]
                                 ELSE g,
                                 p, index + 1)

\* placePiece: the cells of the piece that are on the board take its colours
RECURSIVE placeCells(_, _, _)
placeCells(g, p, index) ==
    IF index > Len(p.positions) THEN g
    ELSE LET row == p.y + p.positions[index].row
             col == p.x + p.positions[index].col
         IN  placeCells(IF isValidPosition(row, col)
                        THEN [g EXCEPT ![row][col] = p.colors[index]]
                        ELSE g,
                        p, index + 1)

placePiece(g, p) == placeCells(g, p, 1)

\* chainBonus that does not grow with the chain count
chainBonusFlat(count) == IF count > 0 THEN 2 * 100 ELSE 0

\* result.chainCount > 0 ? Math.pow(2, result.chainCount) * 100 : 0
chainBonus(count) == IF count > 0 THEN (2 ^ count) * 100 ELSE 0

\* a meter with no upper limit
meterAfterUncapped(meter, count) == meter + 20 * count

\* Math.min(newMeter + 20 * result.chainCount, ATTACK_METER_MAX)
meterAfter(meter, count) ==
    IF count > 0
    THEN (IF meter + 20 * count < ATTACK_METER_MAX
          THEN meter + 20 * count ELSE ATTACK_METER_MAX)
    ELSE meter

\* newBoard.grid[0].every((p) => p.color !== PuyoColor.Empty)
topRowFull(g) == \A c \in Cols : g[0][c] # Empty

\* lockPieceAction; nextNext is the piece createRandomPiece returns
lockPieceAction(state, playerNum, nextNext) ==
    LET player == playerOf(state, playerNum)
    IN  IF player.gameState.currentPiece = NoPiece THEN state
        ELSE LET result == detectChains(placePiece(player.gameState.board,
                                                   player.gameState.currentPiece))
                 newBoard == result.board
                 nextCurrent == player.gameState.nextPiece
                 isGameOver == nextCurrent = NoPiece \/ topRowFull(newBoard)
                 updatedPlayer ==
                     [gameState |->
                         [player.gameState EXCEPT
                             !.board = newBoard,
                             !.currentPiece = nextCurrent,
                             !.nextPiece = nextNext,
                             !.score = player.gameState.score
                                           + chainBonus(result.chainCount),
                             !.chainCount = result.chainCount,
                             !.isGameOver = isGameOver],
                      attackMeter |-> meterAfter(player.attackMeter,
                                                 result.chainCount)]
                 newState == withPlayer(state, playerNum, updatedPlayer)
             IN  IF isGameOver THEN [newState EXCEPT !.isGameActive = FALSE]
                 ELSE newState

\* the exception a property access on undefined throws
TypeError == [error |-> "TypeError"]

\* the row indices the two loops of addGarbage apply to newBoard.grid
addGarbageIndices(rows) ==
    {r - rows : r \in rows .. (BOARD_HEIGHT - 1)}
        \cup (rows .. (BOARD_HEIGHT - 1))
        \cup ((BOARD_HEIGHT - rows) .. (BOARD_HEIGHT - 1))

\* an addGarbage that writes the garbage rows over the bottom rows
addGarbageOver(g, rows, hole) ==
    IF addGarbageIndices(rows) \subseteq Rows
    THEN [r \in Rows |-> [c \in Cols |->
            IF r >= BOARD_HEIGHT - rows
            THEN (IF c = hole[r][c] THEN Empty ELSE Garbage)
            ELSE g[r][c]]]
    ELSE TypeError

\* an addGarbage that appends the garbage rows below the board
addGarbageAppended(g, rows, hole) ==
    [r \in 0 .. (BOARD_HEIGHT - 1 + rows) |-> [c \in Cols |->
        IF r >= BOARD_HEIGHT
        THEN (IF c = hole[r - rows][c] THEN Empty ELSE Garbage)
        ELSE g[r][c]]]

\* addGarbage; hole[r][c] is the value Math.floor(Math.random() * width)
\* takes for the cell (r, c).  newBoard.grid[i] is undefined for an index i
\* that is not a row, and the access to its cell throws.
addGarbage(g, rows, hole) ==
    IF addGarbageIndices(rows) \subseteq Rows
    THEN [r \in Rows |-> [c \in Cols |->
            IF r >= BOARD_HEIGHT - rows
            THEN (IF c = hole[r][c] THEN Empty ELSE Garbage)
            ELSE g[r + rows][c]]]
    ELSE TypeError

\* Math.ceil(damage / 6), damage an integer
garbageRows(damage) == (damage + 5) \div 6

\* the exception of addGarbage leaves the updater of set() and the action
addChainDamage(state, toPlayer, damage, hole) ==
    LET player == playerOf(state, toPlayer)
        newBoard == addGarbage(player.gameState.board, garbageRows(damage), hole)
    IN  IF newBoard = TypeError THEN TypeError
        ELSE withPlayer(state, toPlayer,
                        [player EXCEPT !.gameState.board = newBoard])

(***************************************************************************)
(* Calls of the store actions: one call on a state of the store, or an     *)
(* updatePlayerGameState followed by one call                              *)
(***************************************************************************)
StackRows == 3

Players == {1, 2}

\* the column and the row of the top cell of a piece createRandomPiece made
SpawnCol == SpawnLayout.positions[1].col + 2
SpawnRow == SpawnLayout.positions[1].row + 0

\* the colours Math.random selects for a piece
PieceColors == {<<Red, Blue>>, <<Blue, Blue>>}

\* two stacks StackRows high below the spawn column and the column left of
\* it, with no group left to clear
StoreStackGrids ==
    {g \in {[r \in Rows |-> [c \in Cols |->
                LET h == BOARD_HEIGHT - r
                IN  IF c = SpawnCol - 1 /\ h <= StackRows THEN a[h]
                    ELSE IF c = SpawnCol /\ h <= StackRows THEN b[h]
                    ELSE Empty]] :
             a \in [1 .. StackRows -> {Red, Blue}],
             b \in [1 .. StackRows -> {Red, Blue}]} :
        Len(detectMatches(g)) = 0}

\* the spawn column filled up to the spawned piece, no four of a colour
\* in a row
TowerGrid ==
    [r \in Rows |-> [c \in Cols |->
        IF c = SpawnCol /\ r >= SpawnRow + 2
        THEN (IF (r \div 2) % 2 = 0 THEN Red ELSE Blue)
        ELSE Empty]]

\* twelve garbage rows, the two top ones with their hole in the spawn column
GarbageGrid ==
    [r \in Rows |-> [c \in Cols |->
        IF c = SpawnCol /\ r < SpawnRow + 2 THEN Empty ELSE Garbage]]

\* player 1 (board, currentPiece): a piece resting on the stacks, a fresh
\* game, a rotated piece on the floor, a piece spawned on the tower and on
\* the garbage
StoreScenes ==
    {<<g, PieceOf(SpawnLayout, cs, 2, BOARD_HEIGHT - StackRows - 2)>> :
        g \in StoreStackGrids, cs \in PieceColors}
    \cup {<<createBoard, createRandomPiece(<<Red, Blue>>)>>,
          <<createBoard, PieceOf(HorizontalLayout, <<Red, Blue>>, 0, BOARD_HEIGHT - 1)>>,
          <<TowerGrid, createRandomPiece(<<Red, Blue>>)>>,
          <<GarbageGrid, createRandomPiece(<<Red, Blue>>)>>}

StoreOf(scene) ==
    [player1 |->
        [createInitialPlayerState(<<Red, Blue>>, <<Blue, Blue>>) EXCEPT
            !.gameState.board = scene[1],
            !.gameState.currentPiece = scene[2]],
     player2 |-> createInitialPlayerState(<<Blue, Blue>>, <<Red, Blue>>),
     gameMode |-> "ai",
     difficulty |-> "normal",
     isGameActive |-> TRUE]

\* the values Math.random takes in addGarbage: one hole per row in the
\* first or the last column, a hole in every cell, in none, and a hole that
\* moves with the row
HoleDraws ==
    {[r \in Rows |-> [c \in Cols |-> h]] : h \in {0, BOARD_WIDTH - 1}}
    \cup {[r \in Rows |-> [c \in Cols |-> c]],
          [r \in Rows |-> [c \in Cols |-> (c + 1) % BOARD_WIDTH]],
          [r \in Rows |-> [c \in Cols |-> r % BOARD_WIDTH]]}

\* the damage of addChainDamage: no row, one row, two rows, every row, one
\* row more than the board has, and a negative damage
Damages == {0, 6, 7, 6 * BOARD_HEIGHT, 6 * BOARD_HEIGHT + 1, 0 - 7}

\* the game states updatePlayerGameState is called with
GameStatesFor(player) ==
    {[player.gameState EXCEPT !.currentPiece = NoPiece],
     [player.gameState EXCEPT !.nextPiece = NoPiece]}

Called(name, playerNum) == name \o "(" \o ToString(playerNum) \o ")"

InitStore ==
    /\ store \in {StoreOf(scene) : scene \in StoreScenes}
    /\ snapshot = NoStore
    /\ pc = "store"
    /\ initialBoard = createBoard
    /\ board = createBoard
    /\ chainCount = 0
    /\ matches = <<>>
    /\ possibleMoves = <<>>
    /\ piece = NoPiece
    /\ ret = NoPiece

StoreIdle == <<initialBoard, board, matches, chainCount, piece, ret,
               possibleMoves, snapshot>>

StoreUpdate(playerNum) ==
    /\ pc = "store"
    /\ \E gameState \in GameStatesFor(playerOf(store, playerNum)) :
          store' = updatePlayerGameState(store, playerNum, gameState)
    /\ pc' = "updated"
    /\ UNCHANGED StoreIdle

StoreMoveLeft(playerNum) ==
    /\ pc \in {"store", "updated"}
    /\ store' = movePieceLeftAction(store, playerNum)
    /\ pc' = Called("movePieceLeftAction", playerNum)
    /\ UNCHANGED StoreIdle

StoreMoveRight(playerNum) ==
    /\ pc \in {"store", "updated"}
    /\ store' = movePieceRightAction(store, playerNum)
    /\ pc' = Called("movePieceRightAction", playerNum)
    /\ UNCHANGED StoreIdle

StoreDrop(playerNum) ==
    /\ pc \in {"store", "updated"}
    /\ store' = dropPieceAction(store, playerNum)
    /\ pc' = Called("dropPieceAction", playerNum)
    /\ UNCHANGED StoreIdle

StoreRotate(playerNum) ==
    /\ pc \in {"store", "updated"}
    /\ store' = rotatePieceAction(store, playerNum)
    /\ pc' = Called("rotatePieceAction", playerNum)
    /\ UNCHANGED StoreIdle

StoreLock(playerNum) ==
    /\ pc \in {"store", "updated"}
    /\ \E colors \in PieceColors :
          store' = lockPieceAction(store, playerNum, createRandomPiece(colors))
    /\ pc' = Called("lockPieceAction", playerNum)
    /\ UNCHANGED StoreIdle

StoreDamage(toPlayer) ==
    /\ pc \in {"store", "updated"}
    /\ \E damage \in Damages, hole \in HoleDraws :
          LET result == addChainDamage(store, toPlayer, damage, hole)
          IN  IF result = TypeError
              THEN store' = store /\ pc' = "TypeError"
              ELSE store' = result /\ pc' = Called("addChainDamage", toPlayer)
    /\ UNCHANGED StoreIdle

NextStore ==
    \E playerNum \in Players :
        \/ StoreUpdate(playerNum)
        \/ StoreMoveLeft(playerNum)
        \/ StoreMoveRight(playerNum)
        \/ StoreDrop(playerNum)
        \/ StoreRotate(playerNum)
        \/ StoreLock(playerNum)
        \/ StoreDamage(playerNum)

SpecStore == InitStore /\ [][NextStore]_vars


(***************************************************************************)
(* Store properties (SpecStore)                                            *)
(***************************************************************************)
\* the step is the call of the named store action for player p
IsCall(name, p) == pc' = Called(name, p)

Opponent(p) == 3 - p

GameOf(state, p) == playerOf(state, p).gameState

NoCurrent(p) == GameOf(store, p).currentPiece = NoPiece

\* the board of p with the cells of p's current piece on it
Placed(p) ==
    LET g == GameOf(store, p).board
        cur == GameOf(store, p).currentPiece
    IN  [r \in Rows |-> [c \in Cols |->
            IF \E k \in 1 .. Len(cur.positions) :
                  Pos(r, c) = Pos(cur.y + cur.positions[k].row,
                                  cur.x + cur.positions[k].col)
            THEN cur.colors[CHOOSE k \in 1 .. Len(cur.positions) :
                                Pos(r, c) = Pos(cur.y + cur.positions[k].row,
                                                cur.x + cur.positions[k].col)]
            ELSE g[r][c]]]

\* the scene of a piece lying on the floor: it cannot drop, it cannot rotate
FloorScene ==
    <<createBoard, PieceOf(HorizontalLayout, <<Red, Blue>>, 0, BOARD_HEIGHT - 1)>>

\* C13: a dropPieceAction whose movePieceDown returns null and a
\* rotatePieceAction whose rotatePiece returns null leave the whole store as
\* it was, and so does every piece action for a player whose currentPiece
\* is null.
RejectedLeavesStore ==
    [][\A p \in Players :
        /\ (/\ IsCall("dropPieceAction", p)
            /\ (NoCurrent(p)
                \/ movePieceDown(GameOf(store, p).board,
                                 GameOf(store, p).currentPiece) = NoPiece))
              => store' = store
        /\ (/\ IsCall("rotatePieceAction", p)
            /\ (NoCurrent(p)
                \/ rotatePiece(GameOf(store, p).currentPiece,
                               GameOf(store, p).board) = NoPiece))
              => store' = store
        /\ (/\ NoCurrent(p)
            /\ (\/ IsCall("movePieceLeftAction", p)
                \/ IsCall("movePieceRightAction", p)
                \/ IsCall("lockPieceAction", p)))
              => store' = store
      ]_vars

\* the piece on the floor was dropped: the drop was rejected
RejectedWitness ==
    /\ pc = Called("dropPieceAction", 1)
    /\ store = StoreOf(FloorScene)
    /\ movePieceDown(FloorScene[1], FloorScene[2]) = NoPiece

\* C15: after a lock the player is game over, and the game inactive, if and
\* only if the cell of the spawn row in the spawn column is not empty.
GameOverIffSpawnBlocked ==
    [][\A p \in Players :
        (IsCall("lockPieceAction", p) /\ ~NoCurrent(p)) =>
            LET after == GameOf(store', p)
            IN  /\ after.isGameOver <=> after.board[SpawnRow][SpawnCol] # Empty
                /\ after.isGameOver <=> ~store'.isGameActive
      ]_vars

ReceivedRows(before, after, k) ==
    LET n == IF k < BOARD_HEIGHT THEN k ELSE BOARD_HEIGHT
    IN  /\ \A r \in Rows : r < BOARD_HEIGHT - n =>
              after[r] = before[r + n]
        /\ \A r \in Rows : r >= BOARD_HEIGHT - n =>
              /\ \A c \in Cols : after[r][c] \in {Garbage, Empty}
              /\ \E c \in Cols : after[r][c] = Garbage

\* C17: a lock of cascade depth d >= 1 gives the grid of the opponent
\* ceil(score / 6) garbage rows, score being the 100 * 2^d it awards; a lock
\* of depth 0 gives it none.
LockSendsGarbage ==
    [][\A p \in Players :
        (IsCall("lockPieceAction", p) /\ ~NoCurrent(p)) =>
            LET d == Depth(Placed(p))
                rows == IF d = 0 THEN 0 ELSE (100 * (2 ^ d) + 5) \div 6
            IN  ReceivedRows(GameOf(store, Opponent(p)).board,
                             GameOf(store', Opponent(p)).board, rows)
      ]_vars

\* what a player owns: board, pieces, score and attack meter
Owned(state, p) ==
    <<GameOf(state, p).board, GameOf(state, p).currentPiece,
      GameOf(state, p).nextPiece, GameOf(state, p).score,
      playerOf(state, p).attackMeter>>

\* C18: a piece action or a lock for player p leaves what the other player
\* owns unchanged, and addChainDamage changes nothing but the board of
\* toPlayer.
CallsKeepOpponent ==
    [][\A p \in Players :
        /\ (\/ IsCall("movePieceLeftAction", p)
            \/ IsCall("movePieceRightAction", p)
            \/ IsCall("dropPieceAction", p)
            \/ IsCall("rotatePieceAction", p)
            \/ IsCall("lockPieceAction", p))
              => Owned(store', Opponent(p)) = Owned(store, Opponent(p))
        /\ IsCall("addChainDamage", p) =>
              store' = withPlayer(store, p,
                           [playerOf(store, p) EXCEPT !.gameState.board =
                               GameOf(store', p).board])
      ]_vars

\* player 1 has locked a piece and cleared a chain, player 2 is as created
CallsKeepOpponentWitness ==
    /\ pc = Called("lockPieceAction", 1)
    /\ GameOf(store, 1).chainCount >= 1
    /\ store.player2 = createInitialPlayerState(<<Blue, Blue>>, <<Red, Blue>>)


\* C27: no operation reached through the store or the board functions reads
\* or writes a grid cell outside rows 0 .. 11 and columns 0 .. 5, whatever
\* the damage addChainDamage is called with: no call ends in the exception
\* of an access outside the grid.
NoAccessOutsideGrid == pc # "TypeError"

\* g has BOARD_HEIGHT rows of BOARD_WIDTH cells, each with one colour tag
WellFormed(g) ==
    /\ DOMAIN g = 0 .. 11
    /\ \A r \in DOMAIN g :
          /\ DOMAIN g[r] = 0 .. 5
          /\ \A c \in DOMAIN g[r] : g[r][c] \in PuyoColor

\* C28: in every reachable state the grid of each player has exactly 12
\* rows of 6 cells, each cell with one tag of red, blue, green, yellow,
\* empty and garbage; createBoard yields such a grid with every cell empty.
GridsWellFormed ==
    /\ \A p \in Players : WellFormed(GameOf(store, p).board)
    /\ WellFormed(createBoard)
    /\ \A r \in DOMAIN createBoard : \A c \in DOMAIN createBoard[r] :
          createBoard[r][c] = Empty

\* two garbage rows were pushed under the stacks of player 1
GridsWellFormedWitness ==
    /\ pc = Called("addChainDamage", 1)
    /\ \E c \in Cols : GameOf(store, 1).board[BOARD_HEIGHT - 2][c] = Garbage
    /\ Coloured(GameOf(store, 1).board) # {}
    /\ \A q \in Coloured(GameOf(store, 1).board) : q.row < BOARD_HEIGHT - 2

\* C37: in every reachable state the current piece of a player who is not
\* game over can be placed on that player's board: its cells are on the
\* board and empty, also right after a lock has made the next piece current.
CurrentPieceFits ==
    \A p \in Players :
        (~GameOf(store, p).isGameOver /\ ~NoCurrent(p)) =>
            canPlacePiece(GameOf(store, p).board, GameOf(store, p).currentPiece)

\* C38: after every store action each player's board is gravity-stable: no
\* non-empty cell has an empty cell directly below it.
BoardsGravityStable ==
    \A p \in Players : \A r \in Rows, c \in Cols :
        (r + 1 \in Rows /\ GameOf(store, p).board[r][c] # Empty) =>
            GameOf(store, p).board[r + 1][c] # Empty

(***************************************************************************)
(* Calls of the store actions after the lock that ended the game           *)
(***************************************************************************)
OverRows == 2

\* no two neighbours of the same colour
Chequered(r, c) == PUYO_COLORS[((r + 2 * c) % 4) + 1]

\* every column full but the spawn column, which holds a stack h high, and
\* the top cell of the column left of it
OverGrid(h) ==
    [r \in Rows |-> [c \in Cols |->
        IF c = SpawnCol THEN (IF BOARD_HEIGHT - r <= h THEN Chequered(r, c)
                              ELSE Empty)
        ELSE IF c = SpawnCol - 1 /\ r = 0 THEN Empty
        ELSE Chequered(r, c)]]

\* the last piece lies in the top row, on the column left of the spawn
\* column and over the spawn column
OverScenes ==
    {<<OverGrid(h),
       PieceOf(HorizontalLayout,
               <<Chequered(0, SpawnCol - 1), Chequered(0, SpawnCol)>>,
               SpawnCol - 1, 0)>> : h \in 0 .. OverRows}

\* the store after lockPieceAction(1) has filled the top row
InitOver ==
    /\ \E scene \in OverScenes, colors \in PieceColors :
          store = lockPieceAction(StoreOf(scene), 1, createRandomPiece(colors))
    /\ GameOf(store, 1).isGameOver
    /\ snapshot = store
    /\ pc = "store"
    /\ initialBoard = createBoard
    /\ board = createBoard
    /\ chainCount = 0
    /\ matches = <<>>
    /\ possibleMoves = <<>>
    /\ piece = NoPiece
    /\ ret = NoPiece

SpecOver == InitOver /\ [][NextStore]_vars

(***************************************************************************)
(* Game over properties (SpecOver)                                         *)
(***************************************************************************)
\* C29: once a player is game over and the game inactive, no move, rotate,
\* drop or lock for that player changes the player's board, piece or score.
GameOverIsTerminal ==
    [][\A p \in Players :
        (/\ GameOf(store, p).isGameOver
         /\ ~store.isGameActive
         /\ \/ IsCall("movePieceLeftAction", p)
            \/ IsCall("movePieceRightAction", p)
            \/ IsCall("rotatePieceAction", p)
            \/ IsCall("dropPieceAction", p)
            \/ IsCall("lockPieceAction", p))
          => /\ GameOf(store', p).board = GameOf(store, p).board
             /\ GameOf(store', p).currentPiece = GameOf(store, p).currentPiece
             /\ GameOf(store', p).score = GameOf(store, p).score
      ]_vars

(***************************************************************************)
(* Calls of the store actions on stores whose attack meters have the       *)
(* values earlier locks can have left                                      *)
(***************************************************************************)
MeterSteps == 5

\* the meters sequences of locks of depth 1 reach: 0, 20, ..., 100
Meters == {IF 20 * k < ATTACK_METER_MAX THEN 20 * k ELSE ATTACK_METER_MAX :
              k \in 0 .. MeterSteps}

\* the scenes whose lock clears something, and a fresh game
MeterScenes ==
    {scene \in StoreScenes :
        \/ scene[1] = createBoard
        \/ detectChains(placePiece(scene[1], scene[2])).chainCount > 0}

\* the store of the scene with the two players exchanged
Exchanged(state) ==
    [state EXCEPT !.player1 = state.player2, !.player2 = state.player1]

\* snapshot keeps the store the calls start from
InitMeter ==
    /\ \E scene \in MeterScenes, meter \in Meters :
          LET state == [StoreOf(scene) EXCEPT !.player1.attackMeter = meter]
          IN  store \in {state, Exchanged(state)}
    /\ snapshot = store
    /\ pc = "store"
    /\ initialBoard = createBoard
    /\ board = createBoard
    /\ chainCount = 0
    /\ matches = <<>>
    /\ possibleMoves = <<>>
    /\ piece = NoPiece
    /\ ret = NoPiece

SpecMeter == InitMeter /\ [][NextStore]_vars

(***************************************************************************)
(* Attack meter properties (SpecMeter)                                     *)
(***************************************************************************)
MeterOf(state, p) == playerOf(state, p).attackMeter

\* C26: after every store action each player's attack meter lies in
\* 0 .. 100; a lock of cascade depth d raises it by 20 * d, capped at 100,
\* and no other action changes it, so that none lowers it.
MeterStaysInRange ==
    [][\A p \in Players :
        /\ MeterOf(store', p) \in 0 .. 100
        /\ MeterOf(store', p) >= MeterOf(store, p)
        /\ IF IsCall("lockPieceAction", p) /\ ~NoCurrent(p)
           THEN LET raised == MeterOf(store, p) + 20 * Depth(Placed(p))
                IN  MeterOf(store', p) = IF raised < 100 THEN raised ELSE 100
           ELSE MeterOf(store', p) = MeterOf(store, p)
      ]_vars

\* a lock of depth 2 found the meter at 80 and left it at 100
MeterWitness ==
    /\ pc = Called("lockPieceAction", 1)
    /\ MeterOf(snapshot, 1) = 80
    /\ GameOf(store, 1).chainCount = 2
    /\ MeterOf(store, 1) = 100

(***************************************************************************)
(* The AI: evaluateBoard, getPossibleMoves, simulateDrop, findBestMove     *)
(***************************************************************************)
\* A score is NaN or a number; the number is kept as ScoreScale times its
\* value, which is an integer because array lengths 1 .. 6 divide ScoreScale.
ScoreScale == 60
NaN == [nan |-> TRUE]
Number(scaled) == [nan |-> FALSE, scaled |-> scaled]

\* a > b on scores: false when either is NaN
ScoreGreater(a, b) == ~a.nan /\ ~b.nan /\ a.scaled > b.scaled

\* highestPiece = Math.min(highestPiece, row) over the non-empty cells,
\* starting from 0
highestPiece(g) ==
    LET rows == {0} \cup {r \in Rows : \E c \in Cols : g[r][c] # Empty}
    IN  CHOOSE m \in rows : \A r \in rows : m <= r

\* the columns columHeights has an entry for, and the entry: board.height
\* minus the row of the first non-empty cell met going up from the bottom row
heightColumns(g) == {c \in Cols : \E r \in Rows : g[r][c] # Empty}

columHeight(g, c) ==
    BOARD_HEIGHT - (CHOOSE r \in Rows :
                        /\ g[r][c] # Empty
                        /\ \A q \in Rows : q > r => g[q][c] = Empty)

\* columHeights.length: one more than the last index assigned
heightsLength(g) ==
    IF heightColumns(g) = {} THEN 0
    ELSE 1 + (CHOOSE c \in heightColumns(g) : \A d \in heightColumns(g) : d <= c)

\* columHeights.reduce((a, b) => a + Math.abs(b - columHeights[0]), 0), for
\* a columHeights[0] that is defined
RECURSIVE sumFromFirst(_, _)
sumFromFirst(g, c) ==
    IF c >= BOARD_WIDTH THEN 0
    ELSE (IF c \in heightColumns(g)
          THEN (IF columHeight(g, c) >= columHeight(g, 0)
                THEN columHeight(g, c) - columHeight(g, 0)
                ELSE columHeight(g, 0) - columHeight(g, c))
          ELSE 0) + sumFromFirst(g, c + 1)

\* absolute value of the integer n
abs(n) == IF n >= 0 THEN n ELSE 0 - n

\* evaluateBoard.  With column 0 empty columHeights[0] is undefined: every
\* term of the sum is NaN, and with no column at all the quotient is 0 / 0.
evaluateBoard(g, count) ==
    IF 0 \notin heightColumns(g) THEN NaN
    ELSE Number(count * 1000 * ScoreScale
                - abs(highestPiece(g)) * 100 * ScoreScale
                - sumFromFirst(g, 0) * 50 * (ScoreScale \div heightsLength(g)))

RECURSIVE slideLeft(_, _, _)
RECURSIVE slideRight(_, _, _)
\* while (true) { left = movePieceLeft(...); if (left.x === x) break; push }
slideLeft(g, currentPiece, moves) ==
    LET left == movePieceLeft(g, currentPiece)
    IN  IF left.x = currentPiece.x THEN moves
        ELSE slideLeft(g, left, Append(moves, left))

slideRight(g, currentPiece, moves) ==
    LET right == movePieceRight(g, currentPiece)
    IN  IF right.x = currentPiece.x THEN moves
        ELSE slideRight(g, right, Append(moves, right))

getPossibleMoves(g, p) == slideRight(g, p, slideLeft(g, p, <<>>))

\* while (canMovePieceDown(...)) currentPiece = movePieceDown(...)
RECURSIVE dropToRest(_, _)
dropToRest(g, currentPiece) ==
    IF canMovePieceDown(g, currentPiece)
    THEN dropToRest(g, movePieceDown(g, currentPiece))
    ELSE currentPiece

simulateDrop(g, p) == detectChains(placePiece(g, dropToRest(g, p)))

\* the score findBestMove computes for a move
moveScore(g, move) ==
    LET result == simulateDrop(g, move)
    IN  evaluateBoard(result.board, result.chainCount)

\* for (const move of possibleMoves) { if (score > bestScore) { ... } };
\* bestScore starts at -Infinity, which every number exceeds and NaN does not
RECURSIVE bestLoop(_, _, _, _)
bestLoop(g, moves, k, best) ==
    IF k > Len(moves) THEN best.move
    ELSE LET score == moveScore(g, moves[k])
         IN  bestLoop(g, moves, k + 1,
                 IF ~score.nan /\ (best.minusInfinity
                                   \/ ScoreGreater(score, best.score))
                 THEN [move |-> moves[k], minusInfinity |-> FALSE, score |-> score]
                 ELSE best)

findBestMove(g, p) ==
    LET moves == getPossibleMoves(g, p)
    IN  IF Len(moves) = 0 THEN p
        ELSE bestLoop(g, moves, 1,
                      [move |-> moves[1], minusInfinity |-> TRUE, score |-> NaN])

AICols == 3

\* obstacles: the two bottom rows of the AICols leftmost columns
AIWindow == ((BOARD_HEIGHT - 2) .. (BOARD_HEIGHT - 1)) \X (0 .. (AICols - 1))

AIGrids == {GridOf(f) : f \in [AIWindow -> {Empty, Red}]}

\* pieces as spawned and horizontal ones, in the spawn row and in the row
\* above the floor
AIPieces ==
    {PieceOf(l, cs, x, y) :
        l \in {SpawnLayout, HorizontalLayout},
        cs \in {<<Red, Blue>>, <<Red, Red>>},
        x \in (0 - 2) .. (BOARD_WIDTH - 1),
        y \in {0, BOARD_HEIGHT - 2}}

InitAI ==
    /\ initialBoard \in AIGrids
    /\ board = initialBoard
    /\ piece \in {p \in AIPieces : canPlacePiece(initialBoard, p)}
    /\ possibleMoves = <<>>
    /\ ret = NoPiece
    /\ pc = "piece"
    /\ chainCount = 0
    /\ matches = <<>>
    /\ store = NoStore
    /\ snapshot = NoStore

AIEnumerate ==
    /\ pc = "piece"
    /\ possibleMoves' = getPossibleMoves(board, piece)
    /\ pc' = "enumerated"
    /\ UNCHANGED <<initialBoard, board, matches, chainCount, piece, ret,
                   store, snapshot>>

AIChoose ==
    /\ pc = "enumerated"
    /\ ret' = findBestMove(board, piece)
    /\ pc' = "chosen"
    /\ UNCHANGED <<initialBoard, board, matches, chainCount, piece,
                   possibleMoves, store, snapshot>>

NextAI == AIEnumerate \/ AIChoose

SpecAI == InitAI /\ [][NextAI]_vars


(***************************************************************************)
(* AI properties (SpecAI)                                                  *)
(***************************************************************************)
\* a >= b and a = b on scores: false when either is NaN
ScoreAtLeast(a, b) == ~a.nan /\ ~b.nan /\ a.scaled >= b.scaled
ScoreEqual(a, b) == ~a.nan /\ ~b.nan /\ a.scaled = b.scaled

\* C19: findBestMove returns a candidate of getPossibleMoves whose score
\* after simulateDrop is at least that of every other candidate, and the
\* first one in enumeration order among those of that score.
BestMoveIsFirstBest ==
    pc = "chosen" =>
        \E i \in 1 .. Len(possibleMoves) :
            /\ ret = possibleMoves[i]
            /\ \A j \in (1 .. Len(possibleMoves)) \ {i} :
                  ScoreAtLeast(moveScore(board, possibleMoves[i]),
                               moveScore(board, possibleMoves[j]))
            /\ \A j \in 1 .. (i - 1) :
                  ~ScoreEqual(moveScore(board, possibleMoves[j]),
                              moveScore(board, possibleMoves[i]))

\* the anchor columns p reaches by sliding along its row: every pose from
\* its own to the one at x is accepted by canPlacePiece
SlideColumns(g, p) ==
    {x \in (0 - 2) .. (BOARD_WIDTH - 1) :
        \A z \in (0 - 2) .. (BOARD_WIDTH - 1) :
            ((p.x <= z /\ z <= x) \/ (x <= z /\ z <= p.x))
                => canPlacePiece(g, [p EXCEPT !.x = z])}

\* C20: the candidates of getPossibleMoves are the piece at every anchor
\* column it reaches by sliding left or right along its row, the column it
\* starts from among them, and every candidate satisfies canPlacePiece.
CandidatesAreSlides ==
    pc = "enumerated" =>
        /\ {possibleMoves[i] : i \in 1 .. Len(possibleMoves)}
              = {[piece EXCEPT !.x = x] : x \in SlideColumns(board, piece)}
        /\ piece.x \in {possibleMoves[i].x : i \in 1 .. Len(possibleMoves)}
        /\ \A i \in 1 .. Len(possibleMoves) :
              canPlacePiece(board, possibleMoves[i])


(***************************************************************************)
(* The host: GameScene.update, frame by frame, and the input events.       *)
(* Time is not modelled: this.time.now is any larger number in each frame, *)
(* so each timer test is true or false; getAIAction is called with the     *)
(* time since the AI's last action, none or its response time.             *)
(***************************************************************************)
\* the rate limit of getAIAction, in ms
responseTime(difficulty) ==
    IF difficulty = "easy" THEN 1500
    ELSE IF difficulty = "normal" THEN 1000
    ELSE IF difficulty = "hard" THEN 600
    ELSE 300

\* a getAIMove that plans only above the easy level
getAIMoveByLevel(gameState, difficulty) ==
    IF gameState.currentPiece = NoPiece THEN NoPiece
    ELSE IF difficulty = "easy" THEN gameState.currentPiece
    ELSE findBestMove(gameState.board, gameState.currentPiece)

\* getAIMove: the difficulty is not used
getAIMove(gameState, difficulty) ==
    IF gameState.currentPiece = NoPiece THEN NoPiece
    ELSE findBestMove(gameState.board, gameState.currentPiece)

\* a getAIAction without the rate limit
getAIActionUnlimited(gameState, difficulty, lastActionTime, currentTime) ==
    LET bestPiece == getAIMove(gameState, difficulty)
    IN  IF bestPiece = NoPiece \/ gameState.currentPiece = NoPiece
        THEN "null"
        ELSE IF bestPiece.x < gameState.currentPiece.x THEN "move-left"
        ELSE IF bestPiece.x > gameState.currentPiece.x THEN "move-right"
        ELSE IF findBestMove(gameState.board, gameState.currentPiece).y
                   > gameState.currentPiece.y
        THEN "drop"
        ELSE "lock"

getAIAction(gameState, difficulty, lastActionTime, currentTime) ==
    IF currentTime - lastActionTime < responseTime(difficulty) THEN "null"
    ELSE LET bestPiece == getAIMove(gameState, difficulty)
         IN  IF bestPiece = NoPiece \/ gameState.currentPiece = NoPiece
             THEN "null"
             ELSE IF bestPiece.x < gameState.currentPiece.x THEN "move-left"
             ELSE IF bestPiece.x > gameState.currentPiece.x THEN "move-right"
             ELSE IF findBestMove(gameState.board, gameState.currentPiece).y
                        > gameState.currentPiece.y
             THEN "drop"
             ELSE "lock"

\* the store after the listeners of the emitted events, in the order of
\* handleGamepad: move-left, move-right, soft-drop
afterEvents(state, left, right, down) ==
    LET s1 == IF left THEN movePieceLeftAction(state, 1) ELSE state
        s2 == IF right THEN movePieceRightAction(s1, 1) ELSE s1
    IN  IF down THEN dropPieceAction(s2, 1) ELSE s2

HostRows == 1

\* player 1's board at the start: red stacks up to HostRows high below the
\* spawn column and the column left of it, no group to clear
HostGrids ==
    {g \in {[r \in Rows |-> [c \in Cols |->
                LET h == BOARD_HEIGHT - r
                IN  IF c = SpawnCol - 1 /\ h <= a THEN Red
                    ELSE IF c = SpawnCol /\ h <= b THEN Red
                    ELSE Empty]] :
             a \in 0 .. HostRows, b \in 0 .. HostRows} :
        Len(detectMatches(g)) = 0}

\* player 1 has just got a new piece on a board of HostGrids; player 2, the
\* AI, is as initializeGame created it
InitHost ==
    /\ initialBoard \in HostGrids
    /\ store = StoreOf(<<initialBoard, createRandomPiece(<<Red, Blue>>)>>)
    /\ snapshot = NoStore
    /\ pc = "idle"
    /\ board = createBoard
    /\ chainCount = 0
    /\ matches = <<>>
    /\ possibleMoves = <<>>
    /\ piece = NoPiece
    /\ ret = NoPiece

HostIdle == <<initialBoard, board, matches, chainCount, piece, ret, possibleMoves>>

\* keydown between two frames: the listener of move-left, move-right or
\* soft-drop
HostKey ==
    /\ pc = "idle"
    /\ \E key \in {"move-left", "move-right", "soft-drop"} :
          store' = afterEvents(store, key = "move-left", key = "move-right",
                               key = "soft-drop")
    /\ UNCHANGED <<pc, snapshot>>
    /\ UNCHANGED HostIdle

\* update(): const store = useGameStore.getState(); the two early returns.
\* The frames are followed until player 1's first lock has changed the board.
HostBegin ==
    /\ pc = "idle"
    /\ GameOf(store, 1).board = initialBoard
    /\ IF ~store.isGameActive \/ GameOf(store, 1).isPaused
       THEN UNCHANGED <<pc, snapshot>>
       ELSE pc' = "input" /\ snapshot' = store
    /\ UNCHANGED store
    /\ UNCHANGED HostIdle

\* this.inputManager.update(): handleGamepad emits for every control held
HostGamepad ==
    /\ pc = "input"
    /\ \E left \in BOOLEAN, right \in BOOLEAN, down \in BOOLEAN :
          store' = afterEvents(store, left, right, down)
    /\ pc' = "fall"
    /\ UNCHANGED snapshot
    /\ UNCHANGED HostIdle

\* if (currentTime - this.lastFallTime > BASE_FALL_SPEED) dropPieceAction(1)
HostFall ==
    /\ pc = "fall"
    /\ \E elapsed \in BOOLEAN :
          store' = IF elapsed THEN dropPieceAction(store, 1) ELSE store
    /\ pc' = "lock"
    /\ UNCHANGED snapshot
    /\ UNCHANGED HostIdle

\* the test that guards the lock, on the store update() captured
lockTest(state) ==
    /\ GameOf(state, 1).currentPiece # NoPiece
    /\ ~canMovePieceDown(GameOf(state, 1).board, GameOf(state, 1).currentPiece)

\* the test holds and the lock delay has passed: store.lockPieceAction(1)
HostLock ==
    /\ pc = "lock"
    /\ lockTest(snapshot)
    /\ \E colors \in PieceColors :
          store' = lockPieceAction(store, 1, createRandomPiece(colors))
    /\ pc' = "ai"
    /\ UNCHANGED snapshot
    /\ UNCHANGED HostIdle

\* the test fails, or the lock delay has not passed
HostNoLock ==
    /\ pc = "lock"
    /\ pc' = "ai"
    /\ UNCHANGED <<store, snapshot>>
    /\ UNCHANGED HostIdle

\* if (store.gameMode === 'ai') { getAIAction(store.player2.gameState, ...);
\* switch (aiAction) ... }; the frame ends
HostAI ==
    /\ pc = "ai"
    /\ \E currentTime \in {0, responseTime(snapshot.difficulty)},
          colors \in PieceColors :
          LET aiAction == IF snapshot.gameMode = "ai"
                          THEN getAIAction(GameOf(snapshot, 2),
                                           snapshot.difficulty, 0, currentTime)
                          ELSE "null"
          IN  store' =
                CASE aiAction = "move-left" -> movePieceLeftAction(store, 2)
                  [] aiAction = "move-right" -> movePieceRightAction(store, 2)
                  [] aiAction = "drop" -> dropPieceAction(store, 2)
                  [] aiAction = "lock" ->
                        lockPieceAction(store, 2, createRandomPiece(colors))
                  [] OTHER -> store
    /\ pc' = "idle"
    /\ snapshot' = NoStore
    /\ UNCHANGED HostIdle

NextHost ==
    HostKey \/ HostBegin \/ HostGamepad \/ HostFall \/ HostLock \/ HostNoLock
        \/ HostAI

SpecHost == InitHost /\ [][NextHost]_vars

(***************************************************************************)
(* Host properties (SpecHost)                                              *)
(***************************************************************************)
\* the current piece of player p cannot move down on p's board
Resting(state, p) ==
    /\ GameOf(state, p).currentPiece # NoPiece
    /\ ~canPlacePiece(GameOf(state, p).board,
                      [GameOf(state, p).currentPiece EXCEPT !.y = @ + 1])

\* C14: whenever update() calls lockPieceAction for a player, the piece
\* that player has in the store at that moment cannot move down on that
\* player's board.
LockOnlyWhenResting ==
    [][/\ HostLock => Resting(store, 1)
       /\ (HostAI /\ GameOf(store', 2).board # GameOf(store, 2).board)
             => Resting(store, 2)
      ]_vars


\* the states of player p that one piece-affecting action, or none, makes of
\* p's state in the store `state`
WithinOneAction(state, p) ==
    {playerOf(s, p) :
        s \in {state, movePieceLeftAction(state, p),
               movePieceRightAction(state, p), dropPieceAction(state, p),
               rotatePieceAction(state, p)}
              \cup {lockPieceAction(state, p, createRandomPiece(colors)) :
                        colors \in PieceColors}}

\* C23: within one call of update(), the input events it dispatches included,
\* at most one move, rotate, drop or lock is applied per player: each
\* player's state is at most one action away from its state when the frame
\* began.
OneActionPerTick ==
    pc \in {"fall", "lock", "ai"} =>
        \A p \in Players : playerOf(store, p) \in WithinOneAction(snapshot, p)

(***************************************************************************)
(* evaluateBoard, applied to a board and a chain count                     *)
(***************************************************************************)
EvalRows == 3
EvalCols == 3
MaxChain == 1

\* boards of red stacks, up to EvalRows high, in the EvalCols leftmost columns
EvalGrids ==
    {[r \in Rows |-> [c \in Cols |->
          IF c < EvalCols /\ BOARD_HEIGHT - r <= h[c] THEN Red ELSE Empty]] :
        h \in [0 .. (EvalCols - 1) -> 0 .. EvalRows]}

InitEval ==
    /\ initialBoard \in EvalGrids
    /\ board = initialBoard
    /\ chainCount \in 0 .. MaxChain
    /\ ret = NoPiece
    /\ pc = "board"
    /\ piece = NoPiece
    /\ matches = <<>>
    /\ possibleMoves = <<>>
    /\ store = NoStore
    /\ snapshot = NoStore

Evaluate ==
    /\ pc = "board"
    /\ ret' = evaluateBoard(board, chainCount)
    /\ pc' = "evaluated"
    /\ UNCHANGED <<initialBoard, board, matches, chainCount, piece,
                   possibleMoves, store, snapshot>>

NextEval == Evaluate

SpecEval == InitEval /\ [][NextEval]_vars

(***************************************************************************)
(* Heuristic properties (SpecEval)                                         *)
(***************************************************************************)
\* the height of the tallest column: rows from its topmost non-empty cell to
\* the floor
TallestColumn(g) ==
    LET hs == {0} \cup {BOARD_HEIGHT - p.row : p \in NonEmpty(g)}
    IN  CHOOSE m \in hs : \A h \in hs : h <= m

\* the spread term as the code computes it, times ScoreScale; NaN where the
\* code's quotient is NaN
SpreadTerm(g) ==
    IF 0 \notin heightColumns(g) THEN NaN
    ELSE Number(sumFromFirst(g, 0) * (ScoreScale \div heightsLength(g)))

\* C21: evaluateBoard(board, chainCount) is 1000 x chainCount - 100 x (height
\* of the tallest column) - 50 x (spread of the column heights); of two
\* boards with the same chain count and the same spread term, the one whose
\* tallest column is higher scores strictly lower.
EvaluateIsWeightedSum ==
    pc = "evaluated" =>
        /\ ret = IF SpreadTerm(board).nan THEN NaN
                 ELSE Number(1000 * chainCount * ScoreScale
                             - 100 * TallestColumn(board) * ScoreScale
                             - 50 * SpreadTerm(board).scaled)
        /\ \A g \in EvalGrids :
              (/\ SpreadTerm(g) = SpreadTerm(board)
               /\ TallestColumn(g) > TallestColumn(board))
                 => ScoreGreater(ret, evaluateBoard(g, chainCount))


\* C39: evaluateBoard returns a number, never NaN, for every board and chain
\* count, the empty board and boards with an empty column 0 included.
EvaluateIsNumber == pc = "evaluated" => ~ret.nan

(***************************************************************************)
(* getAIMove and getAIAction, called for a game state, a difficulty and a  *)
(* time since the last action                                              *)
(***************************************************************************)
Difficulties == {"easy", "normal", "hard", "extreme"}

\* the response times, the millisecond before each, and no time at all
ElapsedTimes ==
    {0} \cup {responseTime(d) : d \in Difficulties}
        \cup {responseTime(d) - 1 : d \in Difficulties}

\* the game state of a player whose board is g and whose piece is p
GameStateOf(g, p) ==
    [createInitialPlayerState(<<Red, Blue>>, <<Blue, Blue>>).gameState EXCEPT
        !.board = g, !.currentPiece = p]

\* pieces as spawned and horizontal ones in the spawn row, and no piece
ActionPieces ==
    {NoPiece} \cup
    {PieceOf(l, <<Red, Blue>>, x, 0) :
        l \in {SpawnLayout, HorizontalLayout},
        x \in (0 - 2) .. (BOARD_WIDTH - 1)}

InitAction ==
    /\ initialBoard \in HostGrids
    /\ board = initialBoard
    /\ piece \in {p \in ActionPieces :
                     p # NoPiece => canPlacePiece(initialBoard, p)}
    /\ ret = NoPiece
    /\ pc = "state"
    /\ chainCount = 0
    /\ matches = <<>>
    /\ possibleMoves = <<>>
    /\ store = NoStore
    /\ snapshot = NoStore

\* one call of getAIMove and of getAIAction; ret keeps the arguments and
\* the two results
AIAct ==
    /\ pc = "state"
    /\ \E difficulty \in Difficulties, elapsed \in ElapsedTimes :
          ret' = [difficulty |-> difficulty,
                  elapsed |-> elapsed,
                  move |-> getAIMove(GameStateOf(board, piece), difficulty),
                  action |-> getAIAction(GameStateOf(board, piece),
                                         difficulty, 0, elapsed)]
    /\ pc' = "acted"
    /\ UNCHANGED <<initialBoard, board, matches, chainCount, piece,
                   possibleMoves, store, snapshot>>

NextAction == AIAct

SpecAction == InitAction /\ [][NextAction]_vars

SpawnRows == 2

\* obstacles: rows 1 .. SpawnRows of the columns from the anchor column of a
\* new piece to the column of its cells
SpawnWindow == (1 .. SpawnRows) \X (2 .. SpawnCol)

SpawnGrids == {GridOf(f) : f \in [SpawnWindow -> {Empty, Red}]}

InitSpawn ==
    /\ initialBoard \in SpawnGrids
    /\ board = initialBoard
    /\ piece = NoPiece
    /\ ret = NoPiece
    /\ pc = "board"
    /\ chainCount = 0
    /\ matches = <<>>
    /\ possibleMoves = <<>>
    /\ store = NoStore
    /\ snapshot = NoStore

\* createRandomPiece(): the two colours are the two draws of Math.random
Spawn ==
    /\ pc = "board"
    /\ \E color1 \in {Red, Blue}, color2 \in {Red, Blue} :
          piece' = createRandomPiece(<<color1, color2>>)
    /\ pc' = "fresh"
    /\ UNCHANGED <<initialBoard, board, matches, chainCount, ret,
                   possibleMoves, store, snapshot>>

SpawnDown ==
    /\ pc = "fresh"
    /\ ret' = movePieceDown(board, piece)
    /\ pc' = "fresh moved"
    /\ UNCHANGED <<initialBoard, board, matches, chainCount, piece,
                   possibleMoves, store, snapshot>>

NextSpawn == Spawn \/ SpawnDown

SpecSpawn == InitSpawn /\ [][NextSpawn]_vars

(***************************************************************************)
(* Properties of a new piece (SpecSpawn)                                   *)
(***************************************************************************)
\* C24: a freshly created piece has anchor column 2 and row 0 and covers
\* exactly the cells (0, 2) and (1, 2); on a board whose cell (1, 2) is not
\* empty movePieceDown applied to it returns null.
FreshPieceInColumnTwo ==
    /\ pc \in {"fresh", "fresh moved"} =>
          /\ piece.x = 2
          /\ piece.y = 0
          /\ PieceCells(piece) = {Pos(0, 2), Pos(1, 2)}
    /\ (pc = "fresh moved" /\ board[1][2] # Empty) => ret = NoPiece


(***************************************************************************)
(* placePiece, applied to a board and a piece                              *)
(***************************************************************************)
\* the boards and pieces of InitMove, placeable or not
InitPlace == InitMove

Place ==
    /\ pc = "piece"
    /\ board' = placePiece(board, piece)
    /\ pc' = "placed"
    /\ UNCHANGED <<initialBoard, matches, chainCount, piece, ret,
                   possibleMoves, store, snapshot>>

NextPlace == Place

SpecPlace == InitPlace /\ [][NextPlace]_vars

(***************************************************************************)
(* Placement properties (SpecPlace)                                        *)
(***************************************************************************)
\* C25: for a board and a piece with canPlacePiece true, placePiece returns
\* a board in which every cell of the piece holds the piece's colour for
\* that cell and every other cell is as on the input board, so that the
\* number of non-empty cells is larger by the size of the piece, 2.
PlaceWritesPiece ==
    (pc = "placed" /\ canPlacePiece(initialBoard, piece)) =>
        /\ \A i \in 1 .. Len(piece.positions) :
              board[piece.y + piece.positions[i].row]
                   [piece.x + piece.positions[i].col] = piece.colors[i]
        /\ \A q \in Positions \ PieceCells(piece) :
              ColourAt(board, q) = ColourAt(initialBoard, q)
        /\ Cardinality(NonEmpty(board))
              = Cardinality(NonEmpty(initialBoard)) + 2

PlaceWitness ==
    /\ pc = "placed"
    /\ canPlacePiece(initialBoard, piece)
    /\ piece.colors = <<Red, Blue>>
    /\ Cardinality(NonEmpty(initialBoard)) >= 2
    /\ Cardinality(NonEmpty(board)) = Cardinality(NonEmpty(initialBoard)) + 2


(***************************************************************************)
(* The two-player scene: its input listeners and update().  The listeners  *)
(* use the state object setupInputHandlers read once; snapshot.store is    *)
(* that object and snapshot.shared the players whose gameState object in   *)
(* it is still the one of the current state.                               *)
(***************************************************************************)
\* the playerNum-th player's gameState object is replaced when action has
\* not returned the state it was given
replaced(state, playerNum, action) ==
    LET game == GameOf(state, playerNum)
    IN  /\ game.currentPiece # NoPiece
        /\ action = "p1-soft-drop" =>
              movePieceDown(game.board, game.currentPiece) # NoPiece
        /\ action = "p1-rotate" =>
              rotatePiece(game.currentPiece, game.board) # NoPiece

InitPause ==
    /\ store = StoreOf(<<createBoard, createRandomPiece(<<Red, Blue>>)>>)
    /\ snapshot = [store |-> store, shared |-> Players]
    /\ pc = "create"
    /\ initialBoard = createBoard
    /\ board = createBoard
    /\ chainCount = 0
    /\ matches = <<>>
    /\ possibleMoves = <<>>
    /\ piece = NoPiece
    /\ ret = NoPiece

\* keydown of escape or p: the listener of pause negates isPaused of the
\* gameState object of player 1 it holds
PauseKey ==
    /\ LET flag == ~GameOf(snapshot.store, 1).isPaused
       IN  /\ snapshot' = [snapshot EXCEPT
                              !.store.player1.gameState.isPaused = flag]
           /\ store' = IF 1 \in snapshot.shared
                       THEN [store EXCEPT !.player1.gameState.isPaused = flag]
                       ELSE store
    /\ pc' = "pause"
    /\ UNCHANGED HostIdle

\* keydown of a key of player 1: the listener calls the store action
PlayerKey ==
    /\ \E key \in {"p1-move-left", "p1-move-right", "p1-soft-drop", "p1-rotate"} :
          /\ store' = CASE key = "p1-move-left" -> movePieceLeftAction(store, 1)
                        [] key = "p1-move-right" -> movePieceRightAction(store, 1)
                        [] key = "p1-soft-drop" -> dropPieceAction(store, 1)
                        [] key = "p1-rotate" -> rotatePieceAction(store, 1)
          /\ snapshot' = IF replaced(store, 1, key)
                         THEN [snapshot EXCEPT !.shared = @ \ {1}]
                         ELSE snapshot
    /\ pc' = "key"
    /\ UNCHANGED HostIdle

\* update(): the early returns, the fall timer, the lock of player 1 tested
\* on the gameState read when the frame began.  The frames are followed
\* until player 1's first lock has changed the board.
PauseUpdate ==
    /\ GameOf(store, 1).board = initialBoard
    /\ \E fall \in BOOLEAN, lock \in BOOLEAN, colors \in PieceColors :
          LET gameState1 == GameOf(store, 1)
              returns == \/ ~store.isGameActive
                         \/ gameState1.isGameOver
                         \/ gameState1.isPaused
              fallen == IF fall THEN dropPieceAction(store, 1) ELSE store
              locks == /\ gameState1.currentPiece # NoPiece
                       /\ ~canMovePieceDown(gameState1.board,
                                            gameState1.currentPiece)
                       /\ lock
              locked == IF locks
                        THEN lockPieceAction(fallen, 1, createRandomPiece(colors))
                        ELSE fallen
          IN  IF returns THEN UNCHANGED <<store, snapshot>>
              ELSE /\ store' = locked
                   /\ snapshot' =
                         IF (fall /\ replaced(store, 1, "p1-soft-drop"))
                                \/ (locks /\ replaced(fallen, 1, "lock"))
                         THEN [snapshot EXCEPT !.shared = @ \ {1}]
                         ELSE snapshot
    /\ pc' = "frame"
    /\ UNCHANGED HostIdle

NextPause == PauseKey \/ PlayerKey \/ PauseUpdate

SpecPause == InitPause /\ [][NextPause]_vars

(***************************************************************************)
(* Pause properties (SpecPause)                                            *)
(***************************************************************************)
\* C30: a pause input during active play pauses the game and the next one
\* resumes it; while the game is paused no step other than a pause input
\* changes the board or the piece of player 1: no gravity drop, no lock.
PauseStopsPlay ==
    [][/\ (pc' = "pause" /\ store.isGameActive) =>
              GameOf(store', 1).isPaused = ~GameOf(store, 1).isPaused
       /\ (pc' # "pause" /\ GameOf(store, 1).isPaused) =>
              /\ GameOf(store', 1).isPaused
              /\ GameOf(store', 1).board = GameOf(store, 1).board
              /\ GameOf(store', 1).currentPiece = GameOf(store, 1).currentPiece
      ]_vars


(***************************************************************************)
(* addGarbage, applied to a board, a number of rows and the draws of the   *)
(* holes                                                                   *)
(***************************************************************************)
\* the numbers of rows: none to all, and one less and one more
RowCounts == (0 - 1) .. (BOARD_HEIGHT + 1)

InitGarbage ==
    /\ initialBoard \in HostGrids
    /\ board = initialBoard
    /\ ret = NoPiece
    /\ pc = "board"
    /\ piece = NoPiece
    /\ chainCount = 0
    /\ matches = <<>>
    /\ possibleMoves = <<>>
    /\ store = NoStore
    /\ snapshot = NoStore

\* one call of addGarbage; ret keeps the number of rows and the result
AddGarbage ==
    /\ pc = "board"
    /\ \E rows \in RowCounts, hole \in HoleDraws :
          ret' = [rows |-> rows, board |-> addGarbage(board, rows, hole)]
    /\ pc' = "garbage"
    /\ UNCHANGED <<initialBoard, board, matches, chainCount, piece,
                   possibleMoves, store, snapshot>>

NextGarbage == AddGarbage

SpecGarbage == InitGarbage /\ [][NextGarbage]_vars

(***************************************************************************)
(* Garbage properties (SpecGarbage)                                        *)
(***************************************************************************)
\* addGarbage was called with a number of rows the board has
GarbageAdded == pc = "garbage" /\ ret.rows \in 0 .. BOARD_HEIGHT

\* C35: every garbage row addGarbage writes has exactly one empty cell, the
\* hole, and width - 1 garbage cells, whatever the random draws are.
GarbageRowHasOneHole ==
    GarbageAdded =>
        \A r \in Rows : r >= BOARD_HEIGHT - ret.rows =>
            /\ Cardinality({c \in Cols : ret.board[r][c] = Empty}) = 1
            /\ Cardinality({c \in Cols : ret.board[r][c] = Garbage})
                  = BOARD_WIDTH - 1

\* C36: for 0 <= rows <= height addGarbage(board, rows) moves the content up
\* by rows: the result cell (r - rows, c) is the input cell (r, c) for every
\* r >= rows; the bottom rows hold garbage or empty cells only; with
\* rows = 0 the result is the input board.
GarbageShiftsUp ==
    GarbageAdded =>
        /\ \A r \in Rows, c \in Cols :
              r >= ret.rows => ret.board[r - ret.rows][c] = board[r][c]
        /\ \A r \in Rows, c \in Cols :
              r >= BOARD_HEIGHT - ret.rows =>
                  ret.board[r][c] \in {Garbage, Empty}
        /\ ret.rows = 0 => ret.board = board

\* two rows were pushed under a board that had cells in its bottom row
GarbageShiftsWitness ==
    /\ GarbageAdded
    /\ ret.rows = 2
    /\ \E c \in Cols : board[BOARD_HEIGHT - 1][c] = Red
                       /\ ret.board[BOARD_HEIGHT - 3][c] = Red
    /\ \E c \in Cols : ret.board[BOARD_HEIGHT - 1][c] = Garbage


(***************************************************************************)
(* The hard-drop listeners of the two-player scene, one test and one body  *)
(* of their while loop at a time                                           *)
(***************************************************************************)
GameModes == {"ai", "two-player"}

\* the state setupInputHandlers read: a new game; the store now: player 1 and
\* player 2 with a new piece on a board of HostGrids
InitHardDrop ==
    /\ \E gameMode \in GameModes :
          /\ snapshot =
                [store |-> [StoreOf(<<createBoard, createRandomPiece(<<Red, Blue>>)>>)
                               EXCEPT !.gameMode = gameMode],
                 shared |-> {}]
          /\ \E g1 \in HostGrids, g2 \in HostGrids :
                store = [StoreOf(<<g1, createRandomPiece(<<Red, Blue>>)>>)
                            EXCEPT !.gameMode = gameMode,
                                   !.player2.gameState.board = g2]
    /\ pc = "idle"
    /\ initialBoard = createBoard
    /\ board = createBoard
    /\ chainCount = 0
    /\ matches = <<>>
    /\ possibleMoves = <<>>
    /\ piece = NoPiece
    /\ ret = NoPiece

\* keydown of enter (player 1) or q (player 2): the listener starts; the
\* listener of player 2 returns at once unless the mode is two-player
HardDropKey(playerNum) ==
    /\ pc = "idle" \/ \E p \in Players : pc = Called("returned", p)
    /\ pc' = IF playerNum = 2 /\ snapshot.store.gameMode # "two-player"
             THEN Called("returned", playerNum)
             ELSE Called("while", playerNum)
    /\ UNCHANGED <<store, snapshot>>
    /\ UNCHANGED HostIdle

\* while (store.playerN.gameState.currentPiece && canMovePieceDown(...)),
\* store being the state the listeners were set up with
HardDropTest(playerNum) ==
    /\ pc = Called("while", playerNum)
    /\ pc' = IF /\ GameOf(snapshot.store, playerNum).currentPiece # NoPiece
                /\ canMovePieceDown(GameOf(snapshot.store, playerNum).board,
                                    GameOf(snapshot.store, playerNum).currentPiece)
             THEN Called("body", playerNum)
             ELSE Called("returned", playerNum)
    /\ UNCHANGED <<store, snapshot>>
    /\ UNCHANGED HostIdle

\* store.dropPieceAction(N)
HardDropBody(playerNum) ==
    /\ pc = Called("body", playerNum)
    /\ store' = dropPieceAction(store, playerNum)
    /\ pc' = Called("while", playerNum)
    /\ UNCHANGED snapshot
    /\ UNCHANGED HostIdle

NextHardDrop ==
    \E playerNum \in Players :
        \/ HardDropKey(playerNum)
        \/ HardDropTest(playerNum)
        \/ HardDropBody(playerNum)

SpecHardDrop == InitHardDrop /\ [][NextHardDrop]_vars

\* a listener that has started goes on running
FairHardDrop == SpecHardDrop /\ WF_vars(NextHardDrop)

(***************************************************************************)
(* Hard drop properties (FairHardDrop)                                     *)
(***************************************************************************)
\* C32: the hard-drop listener terminates, and when it has returned the
\* piece of the player in the store cannot move down.
HardDropTerminates ==
    \A p \in Players :
        /\ (pc = Called("while", p)) ~> (pc = Called("returned", p))
        /\ [](pc = Called("returned", p) /\ (p = 1 \/ store.gameMode = "two-player")
                => ~canMovePieceDown(GameOf(store, p).board,
                                     GameOf(store, p).currentPiece))


(***************************************************************************)
(* The two-player scene: update(), one frame at a time, with its clock,    *)
(* and the key listeners of player 1 between the frames.  ret holds the    *)
(* fields of the scene as the time elapsed since each (this.time.now minus *)
(* the field), and how long player 1's piece has been resting.             *)
(***************************************************************************)
BASE_FALL_SPEED == 500
PIECE_LOCK_DELAY == 500

\* the time between two frames, and the elapsed time beyond which the clock
\* is not followed (every timer test is decided below it)
FrameTime == 250
TimeCap == 1500

elapsed(since, dt) == IF since + dt > TimeCap THEN TimeCap ELSE since + dt

\* lastFallTime = 0 and lastLockTime = 0; this.time.now in the first frame
\* is any time
InitLoop ==
    /\ initialBoard \in HostGrids
    /\ \E gameMode \in GameModes :
          store = [StoreOf(<<initialBoard, createRandomPiece(<<Red, Blue>>)>>)
                      EXCEPT !.gameMode = gameMode]
    /\ \E now \in {0, FrameTime, TimeCap} :
          ret = [lastFallTime |-> now, lastLockTime |-> now, resting |-> 0]
    /\ snapshot = NoStore
    /\ pc = "create"
    /\ board = createBoard
    /\ chainCount = 0
    /\ matches = <<>>
    /\ possibleMoves = <<>>
    /\ piece = NoPiece

LoopIdle == <<initialBoard, board, matches, chainCount, piece, possibleMoves,
              snapshot>>

\* how long player 1's piece has been resting when `after` follows `before`
restingAfter(before, after, time) ==
    IF Resting(before, 1) /\ Resting(after, 1)
          /\ GameOf(before, 1).board = GameOf(after, 1).board
    THEN time
    ELSE 0

\* keydown between two frames: the listener of p1-move-left, p1-move-right
\* or p1-soft-drop.  The game is followed until player 1's first lock.
LoopKey ==
    /\ GameOf(store, 1).board = initialBoard
    /\ \E key \in {"p1-move-left", "p1-move-right", "p1-soft-drop"} :
          store' = afterEvents(store, key = "p1-move-left",
                               key = "p1-move-right", key = "p1-soft-drop")
    /\ ret' = [ret EXCEPT !.resting = restingAfter(store, store', @)]
    /\ pc' = "key"
    /\ UNCHANGED LoopIdle

\* the store after the frame's gravity, when it is due
loopFall(state, due) ==
    IF ~due THEN state
    ELSE IF state.gameMode = "two-player"
    THEN dropPieceAction(dropPieceAction(state, 1), 2)
    ELSE dropPieceAction(state, 1)

\* the test that guards the lock of player p, on the state update() read
mustLock(state, p) ==
    /\ GameOf(state, p).currentPiece # NoPiece
    /\ ~canMovePieceDown(GameOf(state, p).board, GameOf(state, p).currentPiece)

\* update(), FrameTime after the frame before
Update ==
    /\ GameOf(store, 1).board = initialBoard
    /\ LET sinceFall == elapsed(ret.lastFallTime, FrameTime)
           sinceLock == elapsed(ret.lastLockTime, FrameTime)
           resting == IF Resting(store, 1)
                      THEN elapsed(ret.resting, FrameTime) ELSE 0
           returns == \/ ~store.isGameActive
                      \/ GameOf(store, 1).isGameOver
                      \/ GameOf(store, 1).isPaused
                      \/ /\ store.gameMode = "two-player"
                         /\ GameOf(store, 2).isGameOver
           fallen == loopFall(store, sinceFall > BASE_FALL_SPEED)
           lock1 == mustLock(store, 1) /\ sinceLock > PIECE_LOCK_DELAY
           lock2 == /\ store.gameMode = "two-player"
                    /\ mustLock(store, 2)
                    /\ ~lock1
                    /\ sinceLock > PIECE_LOCK_DELAY
       IN  IF returns
           THEN /\ store' = store
                /\ ret' = [lastFallTime |-> sinceFall,
                           lastLockTime |-> sinceLock,
                           resting |-> resting]
                /\ pc' = "update"
           ELSE \E colors1 \in PieceColors, colors2 \in PieceColors :
                  LET locked1 == IF lock1
                                 THEN lockPieceAction(fallen, 1,
                                          createRandomPiece(colors1))
                                 ELSE fallen
                      locked2 == IF lock2
                                 THEN lockPieceAction(locked1, 2,
                                          createRandomPiece(colors2))
                                 ELSE locked1
                  IN  /\ store' = locked2
                      /\ ret' = [lastFallTime |->
                                    IF sinceFall > BASE_FALL_SPEED
                                    THEN 0 ELSE sinceFall,
                                 lastLockTime |->
                                    IF lock1 \/ lock2 THEN 0 ELSE sinceLock,
                                 resting |->
                                    IF lock1 THEN 0
                                    ELSE restingAfter(store, locked2, resting)]
                      /\ pc' = IF lock1 THEN Called("lockPieceAction", 1)
                               ELSE "update"
    /\ UNCHANGED LoopIdle

NextLoop == LoopKey \/ Update

SpecLoop == InitLoop /\ [][NextLoop]_vars

(***************************************************************************)
(* Game loop properties (SpecLoop)                                         *)
(***************************************************************************)
\* C31: when the game loop locks player 1's piece, the piece has been
\* resting, unable to move down, for more than PIECE_LOCK_DELAY without a
\* break; a piece that landed in this frame or the one before is not locked.
LockAfterDelay ==
    [][pc' = Called("lockPieceAction", 1)
          => /\ Resting(store, 1)
             /\ elapsed(ret.resting, FrameTime) > PIECE_LOCK_DELAY]_vars


(***************************************************************************)
(* The AI scene: GameScene.update, one frame at a time, with its clock.    *)
(* No key is pressed.  ret holds lastFallTime, lastLockTime and            *)
(* lastAIUpdateTime as the time elapsed since each, the time since the     *)
(* last action applied for the AI, the time between the last two, and the  *)
(* game state the AI had before the last one.                              *)
(***************************************************************************)
AIActions == {"move-left", "move-right", "drop", "lock"}

\* the colours Math.random selects for a piece in the AI scene
TickColors == {<<Red, Blue>>}

\* a new game on a board of HostGrids at any difficulty; the three fields
\* are 0 and this.time.now in the first frame is any time
InitTick ==
    /\ initialBoard \in HostGrids
    /\ \E difficulty \in Difficulties :
          store = [StoreOf(<<initialBoard, createRandomPiece(<<Red, Blue>>)>>)
                      EXCEPT !.difficulty = difficulty]
    /\ \E now \in {0, FrameTime, TimeCap} :
          ret = [lastFallTime |-> now, lastLockTime |-> now,
                 lastAIUpdateTime |-> now, lastAIAction |-> TimeCap,
                 between |-> TimeCap, before |-> NoStore]
    /\ snapshot = NoStore
    /\ pc = "create"
    /\ board = createBoard
    /\ chainCount = 0
    /\ matches = <<>>
    /\ possibleMoves = <<>>
    /\ piece = NoPiece

\* the store after the switch on aiAction
applied(state, aiAction, nextNext) ==
    CASE aiAction = "move-left" -> movePieceLeftAction(state, 2)
      [] aiAction = "move-right" -> movePieceRightAction(state, 2)
      [] aiAction = "drop" -> dropPieceAction(state, 2)
      [] aiAction = "lock" -> lockPieceAction(state, 2, nextNext)
      [] OTHER -> state

\* update(), FrameTime after the frame before
Tick ==
    LET sinceFall == elapsed(ret.lastFallTime, FrameTime)
        sinceLock == elapsed(ret.lastLockTime, FrameTime)
        sinceAI == elapsed(ret.lastAIUpdateTime, FrameTime)
        sinceAction == elapsed(ret.lastAIAction, FrameTime)
        fallen == IF sinceFall > BASE_FALL_SPEED
                  THEN dropPieceAction(store, 1) ELSE store
        lock == lockTest(store) /\ sinceLock > PIECE_LOCK_DELAY
    IN  /\ IF ~store.isGameActive \/ GameOf(store, 1).isPaused
           THEN /\ store' = store
                /\ ret' = [ret EXCEPT !.lastFallTime = sinceFall,
                                      !.lastLockTime = sinceLock,
                                      !.lastAIUpdateTime = sinceAI,
                                      !.lastAIAction = sinceAction]
                /\ pc' = "update"
           ELSE \E aiAction \in {IF store.gameMode = "ai"
                                 THEN getAIAction(GameOf(store, 2),
                                          store.difficulty, 0, sinceAI)
                                 ELSE "null"} :
                  /\ \E colors1 \in TickColors, colors2 \in TickColors :
                        store' =
                          applied(IF lock
                                  THEN lockPieceAction(fallen, 1,
                                           createRandomPiece(colors1))
                                  ELSE fallen,
                                  aiAction, createRandomPiece(colors2))
                  /\ ret' = [lastFallTime |->
                                IF sinceFall > BASE_FALL_SPEED
                                THEN 0 ELSE sinceFall,
                             lastLockTime |->
                                IF lockTest(store) /\ ~lock
                                THEN sinceLock ELSE 0,
                             lastAIUpdateTime |->
                                IF aiAction \in {"move-left", "move-right"}
                                THEN 0 ELSE sinceAI,
                             lastAIAction |->
                                IF aiAction \in AIActions
                                THEN 0 ELSE sinceAction,
                             between |->
                                IF aiAction \in AIActions
                                THEN sinceAction ELSE ret.between,
                             before |->
                                IF aiAction \in AIActions
                                THEN GameOf(store, 2) ELSE ret.before]
                  /\ pc' = IF aiAction \in AIActions
                           THEN Called(aiAction, 2) ELSE "update"
    /\ UNCHANGED LoopIdle

NextTick == Tick

SpecTick == InitTick /\ [][NextTick]_vars

(***************************************************************************)
(* AI scene properties (SpecTick)                                          *)
(***************************************************************************)
\* C33: in AI mode every piece of the AI player is eventually locked, the
\* AI does not move left and right for ever: an action applied for the AI
\* never brings its game state back to the one it had before its previous
\* action, from which getAIAction would answer the same actions again.
AINeverGoesBack ==
    [][(\E a \in AIActions : pc' = Called(a, 2))
          => GameOf(store', 2) # ret.before]_vars

====
